---- MODULE Spec2Model ----
(***************************************************************************)
(* Model of the QuickBooks Online (QBO) extraction pipelines of the        *)
(* repository:                                                             *)
(*   WAHS     src/WAHS API Connection/main.py      (receipts + invoices)   *)
(*   PROD     src/qbo_api_wahssales_PROD.py        (receipts + invoices)   *)
(*   SANDBOX  src/qbo_api_salesreceipts_sandbox.py (receipts)              *)
(*   TEST     src/qbo_api_test.py                  (payments)              *)
(*                                                                         *)
(* Spec  is one run of one script: credentials, token refresh, the paged   *)
(*       fetches, the transformation and the warehouse load.               *)
(* SpecT applies the transformation of one fetched frame                   *)
(*       (flatten, item-name extraction, filter) to inputs drawn from a    *)
(*       bounded set of record batches.                                    *)
(*                                                                         *)
(* Strings that the code inspects character by character (item names, the  *)
(* target product) are sequences of one-character strings.                 *)
(***************************************************************************)
EXTENDS Integers, Sequences, FiniteSets, TLC

VARIABLES
    script,        \* which script runs
    pc,            \* position of the run in the script
    outcome,       \* how the run ended (return value, exit code, exception)
    store,         \* refresh token held by the credential store
    initial_token, \* refresh token read at startup
    access_token,  \* bearer token of the run
    storeWrites,   \* tokens written back to the credential store
    serverLen,     \* number of records the server holds, per resource type
    fi,            \* index of the running fetch function in FetchFns(script)
    start_pos,     \* cursor of the running fetch
    all_records,   \* accumulator of the running fetch
    reqLog,        \* per fetch function: the requests issued, in order
    pageLog,       \* per fetch function: the pages received, in order
    respLog,       \* per fetch function: status and body of the last response
    df_raw,        \* per fetch function: the frame returned
    printed,       \* diagnostic fragments printed by a failing request
    filtered,      \* per fetch function: the filtered frame
    final,         \* the final table of the run
    loads,         \* tables handed to the warehouse loader, in order
    dest,          \* rows and columns of the destination table
    credLog,       \* what the credential store and the token refresh did, in order
    jobs,          \* the load jobs: whether each committed, and the table it left
    runNo,         \* number of the run (runs of the same deployment follow each other)
    tbatch,        \* SpecT: the fetched frame under transformation
    ttarget,       \* SpecT: the target product string
    tlines,        \* SpecT: the exploded frame
    tout,          \* SpecT: the frame returned by process_and_filter_df
    nin,           \* SpecN: the input of the normalization
    nout,          \* SpecN: the results of applying the normalization once, twice
    new_refresh_token, \* refresh token the token refresh returned
    WP_PASSWORD,   \* SpecL: the password read from the environment
    wp_requests,   \* SpecL: the requests sent to WordPress, in order
    response,      \* SpecL: the response of WordPress
    total_students \* SpecL: the total read from the response

runVars == <<script, pc, outcome, store, initial_token, access_token, storeWrites,
             serverLen, fi, start_pos, all_records, reqLog, pageLog, respLog,
             df_raw, printed, filtered, final, loads, dest, credLog, jobs, runNo>>
tVars == <<tbatch, ttarget, tlines, tout>>
nVars == <<nin, nout>>
lVars == <<WP_PASSWORD, wp_requests, response, total_students>>
auxVars == <<nVars, new_refresh_token, lVars>>
vars == <<runVars, tVars, auxVars>>

----------------------------------------------------------------------------
(* Bounds of the model *)

\* Page size of the model's runs: the scripts' max_results (1000) scaled down.
\* The fetch loops use it only in "len(page) < max_results" and in the cursor
\* arithmetic, so every relation between page length and page size is kept.
max_results == 2

\* The server holds 0..MaxServerRecords records of each resource type.
MaxServerRecords == 5

----------------------------------------------------------------------------
(* Scripts and their fetch functions *)

Scripts == {"WAHS", "PROD", "SANDBOX", "TEST"}

FetchFns(s) ==
    CASE s = "WAHS"    -> <<"WAHS_SR", "WAHS_INV">>
      [] s = "PROD"    -> <<"PROD_SR", "PROD_INV">>
      [] s = "SANDBOX" -> <<"SANDBOX_SR">>
      [] s = "TEST"    -> <<"TEST_PAY">>

AllFetchFns == {"WAHS_SR", "WAHS_INV", "PROD_SR", "PROD_INV", "SANDBOX_SR", "TEST_PAY"}

Resource(fn) ==
    CASE fn \in {"WAHS_SR", "PROD_SR", "SANDBOX_SR"} -> "SalesReceipt"
      [] fn \in {"WAHS_INV", "PROD_INV"}             -> "Invoice"
      [] fn = "TEST_PAY"                             -> "Payment"

Resources == {"SalesReceipt", "Invoice", "Payment"}

----------------------------------------------------------------------------
(* Values of the JSON payload.  None stands for Python's None, for a missing *)
(* key read with .get() and for a NaN cell of a frame.                       *)

NoneV == [k |-> "none", s |-> <<>>, n |-> 0]
StrV(s) == [k |-> "str", s |-> s, n |-> 0]
NumV(n) == [k |-> "num", s |-> <<>>, n |-> n]

\* TARGET_PRODUCT of WAHS: 'Products:We Are HIPAA Smart'
TargetWAHS ==
    <<"P", "r", "o", "d", "u", "c", "t", "s", ":", "W", "e", " ", "A", "r",
      "e", " ", "H", "I", "P", "A", "A", " ", "S", "m", "a", "r", "t">>

\* TARGET_PRODUCT of PROD: 'Products:We Are, HIPAA Smart'
TargetPROD ==
    <<"P", "r", "o", "d", "u", "c", "t", "s", ":", "W", "e", " ", "A", "r",
      "e", ",", " ", "H", "I", "P", "A", "A", " ", "S", "m", "a", "r", "t">>

\* TARGET_PRODUCT of SANDBOX: 'We Are, HIPAA Smart'
TargetSANDBOX ==
    <<"W", "e", " ", "A", "r", "e", ",", " ", "H", "I", "P", "A", "A", " ",
      "S", "m", "a", "r", "t">>

\* 'None': the text of str(None)
NameNone ==
    <<"N", "o", "n", "e">>

\* Item and customer names of the sample records.
\*   PaddedWAHS   '  products:We Are   HIPAA SMART\n': TargetWAHS up to case
\*                and whitespace
\*   PaddedPROD   '  Products:We Are,   HIPAA Smart\n': TargetPROD up to
\*                whitespace
\*   LowerSANDBOX 'we are,\thipaa smart': TargetSANDBOX up to case and
\*                whitespace
\*   Blank        '  ': a non-empty name of whitespace only
\*   PadWidget    ' Widget '
SampleName ==
    [PaddedWAHS |->
         <<" ", " ", "p", "r", "o", "d", "u", "c", "t", "s", ":", "W", "e", " ",
           "A", "r", "e", " ", " ", " ", "H", "I", "P", "A", "A", " ", "S", "M",
           "A", "R", "T", "\n">>,
     PaddedPROD |->
         <<" ", " ", "P", "r", "o", "d", "u", "c", "t", "s", ":", "W", "e", " ",
           "A", "r", "e", ",", " ", " ", " ", "H", "I", "P", "A", "A", " ", "S",
           "m", "a", "r", "t", "\n">>,
     LowerSANDBOX |->
         <<"w", "e", " ", "a", "r", "e", ",", "\t", "h", "i", "p", "a", "a",
           " ", "s", "m", "a", "r", "t">>,
     Widget |-> <<"W", "i", "d", "g", "e", "t">>,
     Gadget |-> <<"G", "a", "d", "g", "e", "t">>,
     Blank |-> <<" ", " ">>,
     PadWidget |-> <<" ", "W", "i", "d", "g", "e", "t", " ">>,
     Acme |-> <<"A", "c", "m", "e">>]

----------------------------------------------------------------------------
(* Python string operations used by the scripts *)

Whitespace == {" ", "\t", "\n"}

Upper == <<"A", "B", "C", "D", "E", "F", "G", "H", "I", "J", "K", "L", "M",
           "N", "O", "P", "Q", "R", "S", "T", "U", "V", "W", "X", "Y", "Z">>
LowerOf == <<"a", "b", "c", "d", "e", "f", "g", "h", "i", "j", "k", "l", "m",
             "n", "o", "p", "q", "r", "s", "t", "u", "v", "w", "x", "y", "z">>

\* str.lower() of one character
LowerChar(c) ==
    IF \E i \in 1..Len(Upper) : Upper[i] = c
    THEN LowerOf[CHOOSE i \in 1..Len(Upper) : Upper[i] = c]
    ELSE c

\* str.lower()
Lower(s) == [i \in 1..Len(s) |-> LowerChar(s[i])]

\* str.strip()
RECURSIVE LStrip(_)
LStrip(s) == IF s # <<>> /\ Head(s) \in Whitespace THEN LStrip(Tail(s)) ELSE s
RECURSIVE RStrip(_)
RStrip(s) ==
    IF s # <<>> /\ s[Len(s)] \in Whitespace THEN RStrip(SubSeq(s, 1, Len(s) - 1)) ELSE s
Strip(s) == RStrip(LStrip(s))

\* ' '.join(s.split()): the words of s, separated by single spaces
RECURSIVE JoinSplitFrom(_, _)
JoinSplitFrom(s, out) ==
    IF s = <<>> THEN out
    ELSE IF Head(s) \in Whitespace
         THEN IF LStrip(s) = <<>> THEN out
              ELSE JoinSplitFrom(LStrip(s), out \o <<" ">>)
         ELSE JoinSplitFrom(Tail(s), Append(out, Head(s)))
\* Mutant: one pass that merges each pair of adjacent whitespace characters.
RECURSIVE JoinPairs(_)
JoinPairs(s) ==
    IF Len(s) < 2 THEN s
    ELSE IF s[1] \in Whitespace /\ s[2] \in Whitespace
         THEN <<" ">> \o JoinPairs(SubSeq(s, 3, Len(s)))
         ELSE <<s[1]>> \o JoinPairs(Tail(s))
JoinSplit(s) == JoinSplitFrom(LStrip(s), <<>>)

\* str(v) of a payload value (numbers of the model have one digit)
Digits == <<"0", "1", "2", "3", "4", "5", "6", "7", "8", "9">>
PyStr(v) ==
    CASE v.k = "str"  -> v.s
      [] v.k = "none" -> NameNone
      [] v.k = "num"  -> <<Digits[(v.n % 10) + 1]>>

\* truth value of a payload value: None, '' and 0 are false
Truthy(v) ==
    CASE v.k = "str"  -> v.s # <<>>
      [] v.k = "none" -> FALSE
      [] v.k = "num"  -> v.n # 0

----------------------------------------------------------------------------
(* Line items and header records of the accounting API *)

\* One entry of a record's Line array that is a mapping.  hasDetail: the line
\* has a non-empty SalesItemLineDetail; ItemRefName: its ItemRef.name.
DictLine(desc, hasDetail, item, qty, price, amount) ==
    [kind |-> "dict", Description |-> desc, hasDetail |-> hasDetail,
     ItemRefName |-> item, Qty |-> qty, UnitPrice |-> price, Amount |-> amount]

\* The NaN cell that explode() leaves for an empty or missing Line array.
NaNLine ==
    [kind |-> "nan", Description |-> NoneV, hasDetail |-> FALSE,
     ItemRefName |-> NoneV, Qty |-> NoneV, UnitPrice |-> NoneV, Amount |-> NoneV]

\* An entry of a Line array that is not a mapping.
OtherLine ==
    [kind |-> "other", Description |-> NoneV, hasDetail |-> FALSE,
     ItemRefName |-> NoneV, Qty |-> NoneV, UnitPrice |-> NoneV, Amount |-> NoneV]

\* The entries of the Line arrays of the sample records.
SampleLine ==
    [A |-> DictLine(StrV(SampleName.PaddedWAHS), TRUE, StrV(SampleName.PaddedPROD),
                    NumV(2), NumV(3), NumV(6)),
     B |-> DictLine(NoneV, TRUE, StrV(SampleName.LowerSANDBOX), NumV(1), NumV(4), NumV(4)),
     C |-> DictLine(StrV(SampleName.Widget), TRUE, StrV(SampleName.Gadget), NumV(1), NumV(5), NumV(5)),
     D |-> DictLine(NoneV, FALSE, NoneV, NoneV, NoneV, NumV(9)),
     E |-> DictLine(StrV(<<>>), TRUE, StrV(SampleName.Gadget), NumV(1), NumV(7), NumV(7)),
     F |-> DictLine(StrV(SampleName.Blank), TRUE, StrV(TargetWAHS), NumV(1), NumV(8), NumV(8)),
     G |-> DictLine(StrV(SampleName.PadWidget), FALSE, NoneV, NoneV, NoneV, NoneV),
     H |-> DictLine(NoneV, TRUE, NoneV, NumV(1), NumV(1), StrV(SampleName.Widget)),
     I |-> DictLine(StrV(TargetWAHS), TRUE, StrV(TargetSANDBOX), StrV(SampleName.Gadget),
                    NoneV, StrV(SampleName.Widget)),
     J |-> DictLine(StrV(TargetPROD), TRUE, StrV(TargetWAHS), NumV(2), NumV(2), NumV(4))]

AllKeys == {"Id", "CustomerRef", "TxnDate", "Line", "TotalAmt", "Balance"}

\* One header record.  keys: the keys the JSON object has; a field whose key
\* is missing is not read (its value here is a filler).
Rec(id, keys, custIsDict, custName, txnDate, lines, totalAmt, balance) ==
    [Id |-> id, keys |-> keys,
     CustomerRef |-> [isDict |-> custIsDict, name |-> custName, value |-> StrV(<<"7">>)],
     TxnDate |-> txnDate, Line |-> lines, TotalAmt |-> totalAmt, Balance |-> balance]

ValidDates == {"2024-01-05", "2024-02-29"}
NaT == "NaT"

\* pd.to_datetime(x, errors='coerce').dt.date of one cell
ParseDate(present, txt) == IF present /\ txt \in ValidDates THEN txt ELSE NaT

\* The records the server holds, by resource type.  The record at position p
\* of a resource's result list is PoolOf(res)[((p - 1) % n) + 1]: a list longer
\* than the pool serves the same record (same Id) again on a later page.
ReceiptPool ==
    << Rec("R1", AllKeys, TRUE, StrV(SampleName.Acme), "2024-01-05", <<SampleLine.C>>, NumV(5), NumV(0)),
       Rec("R2", AllKeys, TRUE, StrV(SampleName.Gadget), "2024-02-29",
           <<SampleLine.A, SampleLine.B, SampleLine.D>>, NumV(9), NumV(0)),
       Rec("R3", AllKeys \ {"CustomerRef"}, FALSE, NoneV, "not a date", <<>>, NumV(0), NumV(0)) >>

InvoicePool ==
    << Rec("I1", AllKeys, TRUE, StrV(SampleName.Acme), "2024-02-29",
           <<SampleLine.B, SampleLine.A>>, NumV(8), NumV(8)),
       Rec("I2", AllKeys, TRUE, NoneV, "2024-01-05", <<SampleLine.C>>, NumV(5), NumV(1)),
       Rec("I3", AllKeys, FALSE, NoneV, "2024-01-05",
           <<SampleLine.D, SampleLine.J, SampleLine.I>>, StrV(SampleName.Widget), NumV(2)) >>

PaymentPool ==
    << Rec("P1", AllKeys, TRUE, StrV(SampleName.Acme), "2024-01-05", <<>>, NumV(5), NumV(0)),
       Rec("P2", AllKeys \ {"CustomerRef"}, FALSE, NoneV, "2024-02-29", <<>>, NumV(7), NumV(0)),
       Rec("P3", AllKeys, TRUE, NoneV, "not a date", <<>>, StrV(SampleName.Widget), NumV(0)) >>

PoolOf(res) ==
    CASE res = "SalesReceipt" -> ReceiptPool
      [] res = "Invoice"      -> InvoicePool
      [] res = "Payment"      -> PaymentPool

RecordAt(res, p) == PoolOf(res)[((p - 1) % Len(PoolOf(res))) + 1]

----------------------------------------------------------------------------
(* The accounting API: SELECT * FROM <res> STARTPOSITION s MAXRESULTS m *)

Min(a, b) == IF a < b THEN a ELSE b

\* The page a 200 response carries: the records at positions s .. s+m-1 of the
\* n records the server holds (QueryResponse has no <res> key past the end).
ServerPage(res, n, s, m) ==
    IF s > n THEN <<>>
    ELSE [i \in 1..(Min(s + m - 1, n) - s + 1) |-> RecordAt(res, s + i - 1)]

OK == 200
ErrorStatuses == {401, 500}
ErrorBodies == {"AuthenticationFailed", "ThrottleExceeded"}

StatusStr(code) ==
    CASE code = 200 -> "200"
      [] code = 401 -> "401"
      [] code = 500 -> "500"

----------------------------------------------------------------------------
(* Frames (pandas DataFrame): the columns in order, and the rows in order,   *)
(* each row a function from the column names to the cells.  err is the       *)
(* exception that ended the computation of the frame, "" when none did.      *)

Range(f) == {f[i] : i \in DOMAIN f}

Frame(cols, rows) == [err |-> "", cols |-> cols, rows |-> rows]
UnsetFrame == [err |-> "unset", cols |-> <<>>, rows |-> <<>>]
ErrorFrame(e) == [err |-> e, cols |-> <<>>, rows |-> <<>>]

\* df.empty
IsEmpty(fr) == fr.rows = <<>> \/ fr.cols = <<>>

\* pd.DataFrame(columns=[...])
EmptyFrame(cols) == Frame(cols, <<>>)

\* Scripts whose fetch functions tag a non-empty frame with transaction_type.
TypeTag(fn) ==
    CASE fn \in {"WAHS_SR", "PROD_SR"}   -> "Sales Receipt"
      [] fn \in {"WAHS_INV", "PROD_INV"} -> "Invoice"
      [] OTHER                           -> ""

RECURSIVE KeysOf(_)
KeysOf(recs) == IF recs = <<>> THEN {} ELSE Head(recs).keys \cup KeysOf(Tail(recs))

\* The columns of pd.DataFrame(records): the keys some record has.
KeyOrder == <<"Id", "CustomerRef", "TxnDate", "Line", "TotalAmt", "Balance">>
InKeys(recs, c) == c \in KeysOf(recs)
RawCols(recs) == SelectSeq(KeyOrder, LAMBDA c : InKeys(recs, c))

\* The cell of record r in column c: NaN where r lacks the key.
NaNRef == [isDict |-> FALSE, name |-> NoneV, value |-> NoneV]
RawCell(r, c, tag) ==
    CASE c = "Id"               -> IF c \in r.keys THEN r.Id ELSE "nan"
      [] c = "CustomerRef"      -> IF c \in r.keys THEN r.CustomerRef ELSE NaNRef
      [] c = "TxnDate"          -> IF c \in r.keys THEN r.TxnDate ELSE "nan"
      [] c = "Line"             -> IF c \in r.keys THEN r.Line ELSE <<>>
      [] c = "TotalAmt"         -> IF c \in r.keys THEN r.TotalAmt ELSE NoneV
      [] c = "Balance"          -> IF c \in r.keys THEN r.Balance ELSE NoneV
      [] c = "transaction_type" -> tag

\* df_raw = pd.DataFrame(all_records)
\* if not df_raw.empty: df_raw['transaction_type'] = ...   (WAHS, PROD)
MakeFrame(fn, recs) ==
    LET base == RawCols(recs)
        cols == IF base # <<>> /\ recs # <<>> /\ TypeTag(fn) # ""
                THEN Append(base, "transaction_type") ELSE base
    IN Frame(cols, [i \in 1..Len(recs) |->
                      [c \in Range(cols) |-> RawCell(recs[i], c, TypeTag(fn))]])

----------------------------------------------------------------------------
(* The paged fetch: fetch_qbo_sales_receipts_raw, fetch_qbo_invoices_raw,    *)
(* fetch_qbo_payments_raw                                                    *)

\* start_pos = 1
InitialStartPos == 1

\* PROD's fetch_qbo_invoices_raw loops "while start_pos <= 1000", the literal
\* being the page size; every other fetch function loops "while True".
InvoiceCap == max_results
\* A loop without the cap of PROD's invoice fetch.
LoopGuardUncapped(fn, sp) == TRUE
\* Mutant: the cap of PROD's invoice fetch applied to every fetch function.
LoopGuardCapsAll(fn, sp) == sp <= InvoiceCap
LoopGuard(fn, sp) == fn = "PROD_INV" => sp <= InvoiceCap

\* WAHS: "if not receipts: break" ahead of the extend.
BreaksOnEmpty(fn) == fn \in {"WAHS_SR", "WAHS_INV"}

\* Mutant: records whose Id was already fetched are skipped.
ExtendDedup(all, page) ==
    all \o SelectSeq(page, LAMBDA r : \A k \in 1..Len(all) : all[k].Id # r.Id)

\* all_records.extend(page)
Extend(all, page) == all \o page

\* Mutant: the loop ends on an empty page only.
IsLastPageOnlyEmpty(page) == Len(page) = 0

\* if len(page) < max_results: break
IsLastPage(page) == Len(page) < max_results

\* Mutant: the cursor advances by one record.
NextStartPosByOne(sp) == sp + 1

\* start_pos += max_results
NextStartPos(sp) == sp + max_results

\* A request that carries a token obtained anew for each page after the first.
RequestWithFreshToken(fn, sp, token) ==
    [fn |-> fn, resource |-> Resource(fn), start |-> sp, max |-> max_results,
     token |-> IF sp = InitialStartPos THEN token ELSE "atNew"]

\* "... STARTPOSITION {start_pos} MAXRESULTS {max_results}" with the bearer token
Request(fn, sp, token) ==
    [fn |-> fn, resource |-> Resource(fn), start |-> sp, max |-> max_results,
     token |-> token]

\* The message of the exception a non-200 response raises.
ErrorMessage(fn, status) ==
    CASE fn \in {"WAHS_SR", "PROD_SR"}   -> "QBO API Request Failed during Sales Receipt fetch."
      [] fn \in {"WAHS_INV", "PROD_INV"} -> "QBO API Request Failed during Invoice fetch."
      [] fn = "SANDBOX_SR"               -> "QBO API Request Failed."
      [] fn = "TEST_PAY"                 -> IF status = 401 THEN "Unauthorized API Call."
                                            ELSE "QBO API Request Failed."

\* Mutant: the status code is not printed.
PrintedBodyOnly(fn, status, body) == <<body>>

\* What a non-200 response prints: the status code and the body, except the
\* 401 branch of fetch_qbo_payments_raw, which prints the code only.
PrintedOnError(fn, status, body) ==
    IF fn = "TEST_PAY" /\ status = 401 THEN <<StatusStr(status)>>
    ELSE <<StatusStr(status), body>>

\* raise Exception(msg): the exception's args hold the message only.
RaisedException(fn, status, body) == <<ErrorMessage(fn, status)>>

Running == [kind |-> "running", code |-> 0, args |-> <<>>]
Returned(code, msg) == [kind |-> "returned", code |-> code, args |-> <<msg>>]
Exited(code) == [kind |-> "exited", code |-> code, args |-> <<>>]
\* An exception no handler catches: it leaves run_pipeline (WAHS) or ends the
\* script with a traceback.
Raised(args) == [kind |-> "raised", code |-> 1, args |-> args]

\* Mutant: the exception is swallowed and the fetch counts as empty.
AfterFetchErrorSwallowed(s) == "continue"

\* What becomes of the run when a fetch function raises: no handler catches
\* the exception, so the run is abandoned ("abort").
AfterFetchError(s) == "abort"

CurFn == FetchFns(script)[fi]

FetchPageFail ==
    /\ pc = "fetch"
    /\ \E status \in ErrorStatuses, body \in ErrorBodies :
         /\ reqLog' = [reqLog EXCEPT ![fi] = Append(@, Request(CurFn, start_pos, access_token))]
         /\ respLog' = [respLog EXCEPT ![fi] = [status |-> status, body |-> body]]
         /\ printed' = PrintedOnError(CurFn, status, body)
         /\ all_records' = <<>>
         /\ start_pos' = InitialStartPos
         /\ IF AfterFetchError(script) = "abort"
            THEN /\ outcome' = Raised(RaisedException(CurFn, status, body))
                 /\ pc' = "end"
                 /\ UNCHANGED <<df_raw, fi>>
            ELSE /\ outcome' = outcome
                 /\ df_raw' = [df_raw EXCEPT ![fi] = MakeFrame(CurFn, <<>>)]
                 /\ IF fi < Len(FetchFns(script))
                    THEN fi' = fi + 1 /\ pc' = "fetch"
                    ELSE fi' = fi /\ pc' = "transform"
    /\ UNCHANGED <<script, store, initial_token, access_token, storeWrites, serverLen,
                   pageLog, filtered, final, loads, dest, tVars, auxVars>>
    /\ UNCHANGED <<credLog, jobs, runNo>>
FetchPageOk ==
    /\ pc = "fetch"
    /\ LET fn   == CurFn
           page == ServerPage(Resource(fn), serverLen[Resource(fn)], start_pos, max_results)
           emptyBreak == BreaksOnEmpty(fn) /\ page = <<>>
           acc  == IF emptyBreak THEN all_records ELSE Extend(all_records, page)
           brk  == emptyBreak \/ IsLastPage(page)
           sp2  == IF brk THEN start_pos ELSE NextStartPos(start_pos)
           exitLoop == brk \/ ~LoopGuard(fn, sp2)
       IN /\ reqLog' = [reqLog EXCEPT ![fi] = Append(@, Request(fn, start_pos, access_token))]
          /\ respLog' = [respLog EXCEPT ![fi] = [status |-> OK, body |-> "QueryResponse"]]
          /\ pageLog' = [pageLog EXCEPT ![fi] = Append(@, page)]
          /\ IF exitLoop
             THEN /\ df_raw' = [df_raw EXCEPT ![fi] = MakeFrame(fn, acc)]
                  /\ all_records' = <<>>
                  /\ start_pos' = InitialStartPos
                  /\ IF fi < Len(FetchFns(script))
                     THEN fi' = fi + 1 /\ pc' = "fetch"
                     ELSE fi' = fi /\ pc' = "transform"
             ELSE /\ all_records' = acc
                  /\ start_pos' = sp2
                  /\ UNCHANGED <<df_raw, fi, pc>>
    /\ UNCHANGED <<script, outcome, store, initial_token, access_token, storeWrites,
                   serverLen, printed, filtered, final, loads, dest, tVars, auxVars>>
    /\ UNCHANGED <<credLog, jobs, runNo>>
----------------------------------------------------------------------------
(* Credentials and token refresh *)

StoredToken == "rt0"
RotatedToken == "rt1"
AccessTokens == {"atA", "atB"}
NoToken == "-"

\* A startup error that ends the run like a success.
FatalAsSuccess(s, msg) == IF s = "WAHS" THEN Returned(200, msg) ELSE Exited(0)

\* How a fatal startup error ends the run: run_pipeline returns (message, 500);
\* the scripts call sys.exit(1).
Fatal(s, msg) == IF s = "WAHS" THEN Returned(500, msg) ELSE Exited(1)

\* WAHS: the os.environ reads; scripts: open(CONFIG_FILE) and json.load, which
\* read the stored refresh token with the rest of the configuration.
LoadConfig ==
    /\ pc = "config"
    /\ \E ok \in BOOLEAN :
         /\ IF ok
            THEN /\ pc' = IF script = "WAHS" THEN "get_token" ELSE "refresh"
                 /\ initial_token' = IF script = "WAHS" THEN initial_token ELSE store
                 /\ UNCHANGED outcome
            ELSE /\ pc' = "end"
                 /\ outcome' = Fatal(script, "Pipeline failed: Missing environment variable")
                 /\ UNCHANGED initial_token
         /\ credLog' = IF script = "WAHS" THEN credLog
                       ELSE Append(credLog, IF ok THEN "read_ok" ELSE "read_failed")
    /\ UNCHANGED <<jobs, runNo>>
    /\ UNCHANGED <<script, store, access_token, storeWrites, serverLen, fi, start_pos,
                   all_records, reqLog, pageLog, respLog, df_raw, printed, filtered,
                   final, loads, dest, tVars, auxVars>>

\* WAHS: get_latest_refresh_token
GetLatestRefreshToken ==
    /\ pc = "get_token"
    /\ \E ok \in BOOLEAN :
         /\ IF ok
            THEN pc' = "refresh" /\ initial_token' = store /\ UNCHANGED outcome
            ELSE /\ pc' = "end"
                 /\ outcome' = Returned(500, "QBO Authentication Failed: Token retrieval error.")
                 /\ UNCHANGED initial_token
         /\ credLog' = Append(credLog, IF ok THEN "read_ok" ELSE "read_failed")
    /\ UNCHANGED <<jobs, runNo>>
    /\ UNCHANGED <<script, store, access_token, storeWrites, serverLen, fi, start_pos,
                   all_records, reqLog, pageLog, respLog, df_raw, printed, filtered,
                   final, loads, dest, tVars, auxVars>>

\* auth_client.refresh(...) fails
RefreshFail ==
    /\ pc = "refresh"
    /\ pc' = "end"
    /\ outcome' = Fatal(script, "QBO Authentication Failed")
    /\ credLog' = Append(credLog, "refresh_failed")
    /\ UNCHANGED <<jobs, runNo>>
    /\ UNCHANGED <<script, store, initial_token, access_token, storeWrites, serverLen,
                   fi, start_pos, all_records, reqLog, pageLog, respLog, df_raw,
                   printed, filtered, final, loads, dest, tVars, auxVars>>

\* auth_client.refresh(...) succeeds; a rotated refresh token is written back:
\* A refresh that writes the token back whether or not it changed.
NeedsWriteAlways(new, initial) == TRUE

\* if new_refresh_token != QB_REFRESH_TOKEN_INITIAL (scripts:
\* != config['refresh_token'])
NeedsWrite(new, initial) == new # initial

\* update_refresh_token (WAHS) swallows a failed write with a warning, the
\* scripts' failed write of the config file is caught and ends in sys.exit(1).
RefreshOk ==
    /\ pc = "refresh"
    /\ \E nt \in {initial_token, RotatedToken}, at \in AccessTokens, wok \in BOOLEAN :
         /\ (~NeedsWrite(nt, initial_token) => wok)
         /\ new_refresh_token' = nt
         /\ IF NeedsWrite(nt, initial_token) /\ wok
            THEN store' = nt /\ storeWrites' = Append(storeWrites, nt)
            ELSE UNCHANGED <<store, storeWrites>>
         /\ IF NeedsWrite(nt, initial_token) /\ ~wok /\ script # "WAHS"
            THEN pc' = "end" /\ outcome' = Exited(1) /\ UNCHANGED access_token
            ELSE pc' = "fetch" /\ access_token' = at /\ UNCHANGED outcome
         /\ credLog' = IF ~NeedsWrite(nt, initial_token) THEN Append(credLog, "refresh_ok")
                       ELSE credLog \o <<"refresh_ok", IF wok THEN "write_ok" ELSE "write_failed">>
    /\ UNCHANGED <<jobs, runNo>>
    /\ UNCHANGED <<script, initial_token, serverLen, fi, start_pos, all_records, reqLog,
                   pageLog, respLog, df_raw, printed, filtered, final, loads, dest, tVars, nVars, lVars>>

----------------------------------------------------------------------------
(* Frame operations *)

\* df[name] = ... for each name of names: a new column goes to the end, an
\* existing one is overwritten in place.  cells[i][c] is the new cell of row i.
WithCols(fr, names, cells) ==
    LET Fresh(c) == c \notin Range(fr.cols)
        cols == fr.cols \o SelectSeq(names, Fresh)
    IN Frame(cols, [i \in 1..Len(fr.rows) |->
                      [c \in Range(cols) |->
                         IF c \in Range(names) THEN cells[i][c]
                         ELSE fr.rows[i][c]]])

\* df[[names]]: KeyError when a name is no column
Select(fr, names) ==
    IF ~(Range(names) \subseteq Range(fr.cols)) THEN ErrorFrame("KeyError")
    ELSE Frame(names, [i \in 1..Len(fr.rows) |-> [c \in Range(names) |-> fr.rows[i][c]]])

\* df.rename(columns={old[j]: new[j]})
Rename(fr, old, new) ==
    LET To(c) == IF \E j \in 1..Len(old) : old[j] = c
                 THEN new[CHOOSE j \in 1..Len(old) : old[j] = c] ELSE c
        From(c) == IF \E j \in 1..Len(old) : new[j] = c
                   THEN old[CHOOSE j \in 1..Len(old) : new[j] = c] ELSE c
        cols == [k \in 1..Len(fr.cols) |-> To(fr.cols[k])]
    IN Frame(cols, [i \in 1..Len(fr.rows) |-> [c \in Range(cols) |-> fr.rows[i][From(c)]]])

\* Mutant: the frames are concatenated last to first.
RECURSIVE ConcatRowsReversed(_)
ConcatRowsReversed(frames) ==
    IF frames = <<>> THEN <<>>
    ELSE ConcatRowsReversed(Tail(frames)) \o Head(frames).rows

\* pd.concat(frames, ignore_index=True) of frames with the same columns
RECURSIVE ConcatRows(_)
ConcatRows(frames) ==
    IF frames = <<>> THEN <<>> ELSE Head(frames).rows \o ConcatRows(Tail(frames))

----------------------------------------------------------------------------
(* Item names and their normalization *)

\* Mutant: every script reads ItemRef.name only.
get_item_name_ItemRefOnly(s, line) ==
    IF line.kind = "dict" /\ line.hasDetail /\ Truthy(line.ItemRefName)
    THEN StrV(Strip(PyStr(line.ItemRefName)))
    ELSE NoneV

\* get_item_name(line): WAHS reads Description first and falls back to
\* SalesItemLineDetail.ItemRef.name; PROD and SANDBOX read ItemRef.name only.
get_item_name(s, line) ==
    IF s = "WAHS"
    THEN IF line.kind = "dict"
         THEN LET name == IF ~Truthy(line.Description) /\ line.hasDetail
                          THEN line.ItemRefName ELSE line.Description
              IN IF Truthy(name) THEN StrV(Strip(PyStr(name))) ELSE NoneV
         ELSE NoneV
    ELSE IF line.kind = "dict" /\ line.hasDetail /\ Truthy(line.ItemRefName)
         THEN StrV(Strip(PyStr(line.ItemRefName)))
         ELSE NoneV

\* PROD: get_line_detail(line, key), key one of Qty, UnitPrice
get_line_detail(line, key) ==
    IF line.kind = "dict" /\ line.hasDetail THEN line[key] ELSE NoneV

\* clean_and_lower(text): PROD maps a null to '', SANDBOX maps it to None.
\* WAHS has no such function: it applies .astype(str) and then
\* ' '.join(x.split()).lower(), so a null becomes the text 'none'.
clean_and_lower(s, v) ==
    CASE s = "PROD"    -> IF v.k = "none" THEN StrV(<<>>) ELSE StrV(Lower(JoinSplit(PyStr(v))))
      [] s = "SANDBOX" -> IF v.k = "none" THEN NoneV ELSE StrV(Lower(JoinSplit(PyStr(v))))
      [] OTHER         -> StrV(Lower(JoinSplit(PyStr(v))))

\* A target that is trimmed and lowercased but keeps its inner whitespace.
NormalizeTargetStripOnly(s, t) == StrV(Lower(Strip(t)))

\* The normalized target: target_clean (WAHS), TARGET_PRODUCT_CLEAN (PROD, SANDBOX,
\* computed from TARGET_PRODUCT.strip()).
NormalizeTarget(s, t) ==
    IF s = "WAHS" THEN StrV(Lower(JoinSplit(PyStr(StrV(t)))))
    ELSE clean_and_lower(s, StrV(Strip(t)))

\* Mutant: a fuzzy comparison that ignores commas.
NoCommas(v) == [v EXCEPT !.s = SelectSeq(v.s, LAMBDA c : c # ",")]
MatchesIgnoringCommas(nameLower, targetClean) == NoCommas(nameLower) = NoCommas(targetClean)

\* The comparison of the filter: df_lines['item_name_lower'] == target
Matches(nameLower, targetClean) == nameLower = targetClean

TargetProduct(s) ==
    CASE s = "WAHS"    -> TargetWAHS
      [] s = "PROD"    -> TargetPROD
      [] s = "SANDBOX" -> TargetSANDBOX
      [] OTHER         -> <<>>

----------------------------------------------------------------------------
(* Flattening: header fields, explode, item name *)

\* df_raw['customer_name'] = df_raw['CustomerRef'].apply(...)
\* df_raw['transaction_date'] = pd.to_datetime(df_raw['TxnDate'], errors='coerce').dt.date
HeaderCell(row, c) ==
    IF c = "customer_name"
    THEN (IF row["CustomerRef"].isDict THEN row["CustomerRef"].name ELSE NoneV)
    ELSE ParseDate(TRUE, row["TxnDate"])

FlattenHeader(fr) ==
    IF fr.err # "" THEN fr
    ELSE IF "CustomerRef" \notin Range(fr.cols) THEN ErrorFrame("KeyError: 'CustomerRef'")
    ELSE IF "TxnDate" \notin Range(fr.cols) THEN ErrorFrame("KeyError: 'TxnDate'")
    ELSE WithCols(fr, <<"customer_name", "transaction_date">>,
                  [i \in 1..Len(fr.rows) |->
                     [c \in {"customer_name", "transaction_date"} |-> HeaderCell(fr.rows[i], c)]])

\* An explode that keeps one row per transaction, holding its first line.
ExplodeRowFirstOnly(row) ==
    <<[row EXCEPT !["Line"] = IF row["Line"] = <<>> THEN NaNLine ELSE Head(row["Line"])]>>

\* The rows one row explodes to: one per entry of its Line list, one row with
\* a NaN cell when the list is empty or the cell is NaN.
ExplodeRow(row) ==
    LET lines == IF row["Line"] = <<>> THEN <<NaNLine>> ELSE row["Line"]
    IN [j \in 1..Len(lines) |-> [row EXCEPT !["Line"] = lines[j]]]

RECURSIVE ExplodeRows(_)
ExplodeRows(rows) ==
    IF rows = <<>> THEN <<>> ELSE ExplodeRow(Head(rows)) \o ExplodeRows(Tail(rows))

\* df_raw.explode('Line', ignore_index=True)
Explode(fr) ==
    IF fr.err # "" THEN fr
    ELSE IF "Line" \notin Range(fr.cols) THEN ErrorFrame("KeyError: 'Line'")
    ELSE Frame(fr.cols, ExplodeRows(fr.rows))

\* The name of the raw item-name column: item_name in SANDBOX.
RawNameCol(s) == IF s = "SANDBOX" THEN "item_name" ELSE "item_name_raw"

\* df_lines[item_name_raw] = df_lines['Line'].apply(get_item_name)
\* df_lines['item_name_lower'] = normalized item_name_raw
\* PROD: df_lines['quantity'], df_lines['sales_price']
ExtractNames(s, fr) ==
    IF fr.err # "" THEN fr
    ELSE LET NameCell(row, c) ==
                 CASE c = "item_name_lower" -> clean_and_lower(s, get_item_name(s, row["Line"]))
                   [] c = "quantity"        -> get_line_detail(row["Line"], "Qty")
                   [] c = "sales_price"     -> get_line_detail(row["Line"], "UnitPrice")
                   [] OTHER                 -> get_item_name(s, row["Line"])
             names == IF s = "PROD"
                      THEN <<RawNameCol(s), "item_name_lower", "quantity", "sales_price">>
                      ELSE <<RawNameCol(s), "item_name_lower">>
         IN WithCols(fr, names,
                     [i \in 1..Len(fr.rows) |->
                        [c \in Range(names) |-> NameCell(fr.rows[i], c)]])

\* The exploded frame df_lines of a non-empty fetched frame.
Flatten(s, fr) == ExtractNames(s, Explode(FlattenHeader(fr)))

\* df_lines[df_lines['item_name_lower'] == target].copy()
FilterRows(fr, targetClean) ==
    IF fr.err # "" THEN fr
    ELSE LET Keep(row) == Matches(row["item_name_lower"], targetClean)
         IN Frame(fr.cols, SelectSeq(fr.rows, Keep))

----------------------------------------------------------------------------
(* process_and_filter_df and the final table *)

\* A to_numeric that leaves a text it cannot read as it is.
ToNumericKeepsText(v) ==
    IF v.k = "str" /\ ~(Len(v.s) = 1 /\ v.s[1] \in Range(Digits)) THEN v ELSE
    CASE v.k = "num"  -> v
      [] v.k = "none" -> NoneV
      [] v.k = "str"  -> NumV((CHOOSE d \in 1..Len(Digits) : Digits[d] = v.s[1]) - 1)

\* pd.to_numeric(x, errors='coerce') of one cell
ToNumeric(v) ==
    CASE v.k = "num"  -> v
      [] v.k = "none" -> NoneV
      [] v.k = "str"  -> IF Len(v.s) = 1 /\ v.s[1] \in Range(Digits)
                         THEN NumV((CHOOSE d \in 1..Len(Digits) : Digits[d] = v.s[1]) - 1)
                         ELSE NoneV

\* df[c] = pd.to_numeric(df[c], errors='coerce') for each c of names
CoerceNumeric(fr, names) ==
    IF fr.err # "" THEN fr
    ELSE WithCols(fr, names,
                  [i \in 1..Len(fr.rows) |-> [c \in Range(names) |-> ToNumeric(fr.rows[i][c])]])

\* The schema process_and_filter_df returns for an empty input or filter result.
EMPTY_COLS(s) ==
    IF s = "WAHS"
    THEN <<"Id", "customer_name", "transaction_date", "item_name_raw", "transaction_type", "Amount">>
    ELSE <<"Id", "customer_name", "transaction_date", "item_name_raw", "transaction_type", "TotalAmt">>

\* The columns process_and_filter_df returns for a non-empty filter result.
KeptCols(s) ==
    IF s = "WAHS"
    THEN <<"Id", "customer_name", "transaction_date", "item_name_raw", "transaction_type", "Amount">>
    ELSE <<"Id", "customer_name", "transaction_date", "item_name_raw", "transaction_type",
           "TotalAmt", "Balance", "quantity", "sales_price">>

\* An amount that is 0 also for a mapping without an Amount.
LineAmountOrZero(line) ==
    IF line.kind = "dict" /\ line.Amount # NoneV THEN line.Amount ELSE NumV(0)

\* WAHS: x.get('Amount') if isinstance(x, dict) else 0
LineAmount(line) == IF line.kind = "dict" THEN line.Amount ELSE NumV(0)

\* WAHS adds the Amount column to the filtered rows; PROD adds nothing.
AddAmount(s, fr) ==
    IF fr.err # "" \/ s # "WAHS" THEN fr
    ELSE WithCols(fr, <<"Amount">>,
                  [i \in 1..Len(fr.rows) |-> [c \in {"Amount"} |-> LineAmount(fr.rows[i]["Line"])]])

\* What process_and_filter_df returns for the filtered lines: the empty schema
\* when there are none, else the kept columns (with Amount in WAHS).
ProcessTail(s, df_product_lines) ==
    IF df_product_lines.err # "" THEN df_product_lines
    ELSE IF IsEmpty(df_product_lines) THEN EmptyFrame(EMPTY_COLS(s))
    ELSE Select(AddAmount(s, df_product_lines), KeptCols(s))

\* process_and_filter_df(df_raw, target) of WAHS and PROD (PROD's caller
\* passes the target already normalized).
process_and_filter_df(s, fr, target) ==
    IF IsEmpty(fr) THEN EmptyFrame(EMPTY_COLS(s))
    ELSE ProcessTail(s, FilterRows(Flatten(s, fr), NormalizeTarget(s, target)))

\* The zero-row final table built when no filtered frame has rows.
EmptyFinalCols(s) ==
    CASE s = "WAHS" -> <<"transaction_id", "customer_name", "transaction_date",
                         "product_name", "total_amount", "transaction_type">>
      [] s = "PROD" -> <<"transaction_id", "customer_name", "transaction_date",
                         "product_name", "line_amount", "transaction_type">>
      [] OTHER      -> <<"sales_receipt_id", "customer_name", "transaction_date",
                         "product_name", "line_amount">>

\* The columns selected from the concatenated frame, and their final names.
FinalSelect(s) ==
    IF s = "WAHS"
    THEN <<"Id", "customer_name", "transaction_date", "item_name_raw", "transaction_type", "Amount">>
    ELSE <<"Id", "customer_name", "transaction_date", "item_name_raw", "transaction_type",
           "quantity", "sales_price", "TotalAmt">>

NumericCols(s) ==
    IF s = "WAHS" THEN <<"total_amount">> ELSE <<"total_amount", "quantity", "sales_price">>

\* dfs_to_concat = [df for df in dfs_to_concat if not df.empty]
NonEmpty(frames) == SelectSeq(frames, LAMBDA f : ~IsEmpty(f))

\* WAHS, PROD: "COMBINE AND FINAL CLEANUP"
Assemble(s, frames) ==
    IF \E i \in 1..Len(frames) : frames[i].err # ""
    THEN frames[CHOOSE i \in 1..Len(frames) :
                  frames[i].err # "" /\ \A j \in 1..(i - 1) : frames[j].err = ""]
    ELSE IF NonEmpty(frames) = <<>> THEN EmptyFrame(EmptyFinalCols(s))
    ELSE LET combined == Frame(Head(NonEmpty(frames)).cols, ConcatRows(NonEmpty(frames)))
             picked   == Select(combined, FinalSelect(s))
         IN IF picked.err # "" THEN picked
            ELSE CoerceNumeric(
                   Rename(picked,
                          <<"Id", IF s = "WAHS" THEN "Amount" ELSE "TotalAmt", "item_name_raw">>,
                          <<"transaction_id", "total_amount", "product_name">>),
                   NumericCols(s))

\* SANDBOX: the final table built from the filtered lines; amount_key = 'amount'
SandboxTail(df_product_lines) ==
    IF df_product_lines.err # "" THEN df_product_lines
    ELSE IF IsEmpty(df_product_lines) THEN EmptyFrame(EmptyFinalCols("SANDBOX"))
    ELSE LET picked == Select(df_product_lines,
                              <<"Id", "customer_name", "transaction_date",
                                "item_name", "amount">>)
         IN IF picked.err # "" THEN picked
            ELSE CoerceNumeric(
                   Rename(picked, <<"Id", "amount", "item_name">>,
                          <<"sales_receipt_id", "line_amount", "product_name">>),
                   <<"line_amount">>)

\* SANDBOX: the inline transformation of df_receipts_raw
SandboxTransform(fr) ==
    IF IsEmpty(fr) THEN EmptyFrame(EmptyFinalCols("SANDBOX"))
    ELSE SandboxTail(FilterRows(Flatten("SANDBOX", fr),
                                NormalizeTarget("SANDBOX", TargetProduct("SANDBOX"))))

\* TEST: the transformation of df_payments_raw (no emptiness check)
TestTransform(fr) ==
    IF "CustomerRef" \notin Range(fr.cols) THEN ErrorFrame("KeyError: 'CustomerRef'")
    ELSE IF "TxnDate" \notin Range(fr.cols) THEN ErrorFrame("KeyError: 'TxnDate'")
    ELSE IF "TotalAmt" \notin Range(fr.cols) THEN ErrorFrame("KeyError: 'TotalAmt'")
    ELSE LET Cell(row, c) ==
                 CASE c = "customer_id" ->
                          (IF row["CustomerRef"].isDict THEN row["CustomerRef"].value ELSE NoneV)
                   [] c = "transaction_date" -> ParseDate(TRUE, row["TxnDate"])
                   [] OTHER -> ToNumeric(row["TotalAmt"])
             added == <<"customer_id", "transaction_date", "total_amount">>
             picked == Select(WithCols(fr, added,
                                       [i \in 1..Len(fr.rows) |->
                                          [c \in Range(added) |-> Cell(fr.rows[i], c)]]),
                              <<"Id", "customer_id", "transaction_date", "total_amount">>)
         IN IF picked.err # "" THEN picked
            ELSE Rename(picked, <<"Id">>, <<"payment_id">>)

\* The filtered frames of a run, one per fetched frame (WAHS, PROD).
FilteredFrames(s, frames) ==
    [i \in 1..Len(frames) |-> process_and_filter_df(s, frames[i], TargetProduct(s))]

\* The final table df_payments_final of a run.
FinalTable(s, frames) ==
    CASE s \in {"WAHS", "PROD"} -> Assemble(s, FilteredFrames(s, frames))
      [] s = "SANDBOX"          -> SandboxTransform(frames[1])
      [] s = "TEST"             -> TestTransform(frames[1])

----------------------------------------------------------------------------
(* Transformation and warehouse load of a run *)

\* What the destination table holds before the run.
PriorTable == Frame(<<"transaction_id">>, <<[transaction_id |-> "old"]>>)

\* "EXECUTION AND TRANSFORMATION": the filtering of each fetched frame and the
\* final table; an exception of the transformation is caught by nothing.
Transform ==
    /\ pc = "transform"
    /\ LET table == FinalTable(script, df_raw)
       IN /\ filtered' = IF script \in {"WAHS", "PROD"}
                         THEN FilteredFrames(script, df_raw) ELSE filtered
          /\ final' = table
          /\ IF table.err # ""
             THEN pc' = "end" /\ outcome' = Raised(<<table.err>>)
             ELSE pc' = "bq_auth" /\ UNCHANGED outcome
    /\ UNCHANGED <<script, store, initial_token, access_token, storeWrites, serverLen,
                   fi, start_pos, all_records, reqLog, pageLog, respLog, df_raw,
                   printed, loads, dest, tVars, auxVars>>
    /\ UNCHANGED <<credLog, jobs, runNo>>
\* bigquery.Client.from_service_account_json(...)
BqAuth ==
    /\ pc = "bq_auth"
    /\ \E ok \in BOOLEAN :
         IF ok THEN pc' = "load" /\ UNCHANGED outcome
         ELSE pc' = "end" /\ outcome' = Fatal(script, "BigQuery Auth Failed (Key File)")
    /\ UNCHANGED <<script, store, initial_token, access_token, storeWrites, serverLen,
                   fi, start_pos, all_records, reqLog, pageLog, respLog, df_raw,
                   printed, filtered, final, loads, dest, tVars, auxVars>>
    /\ UNCHANGED <<credLog, jobs, runNo>>
\* How a failed load job ends the run: run_pipeline returns (message, 500);
\* the scripts print the error and run to their end.
AfterLoadFailure(s) ==
    IF s = "WAHS" THEN Returned(500, "BigQuery Load Failed") ELSE Exited(0)

\* How a committed load job ends the run.
AfterLoadSuccess(s) ==
    IF s = "WAHS" THEN Returned(200, "QuickBooks data loaded successfully!") ELSE Exited(0)

\* A load that adds the new rows to the rows the table holds.
WriteTruncateKeepsRows(old, new) == Frame(new.cols, old.rows \o new.rows)

\* write_disposition="WRITE_TRUNCATE": the table a committed job leaves, from
\* the table it found and the frame it loaded.
WriteTruncate(old, new) == new

\* load_table_from_dataframe(df, table_ref, WRITE_TRUNCATE); job.result()
Load ==
    /\ pc = "load"
    /\ loads' = Append(loads, final)
    /\ pc' = "end"
    /\ \E ok \in BOOLEAN :
         /\ IF ok THEN dest' = WriteTruncate(dest, final) /\ outcome' = AfterLoadSuccess(script)
            ELSE UNCHANGED dest /\ outcome' = AfterLoadFailure(script)
         /\ jobs' = Append(jobs, [committed |-> ok, before |-> dest, table |-> dest'])
    /\ UNCHANGED <<credLog, runNo>>
    /\ UNCHANGED <<script, store, initial_token, access_token, storeWrites, serverLen,
                   fi, start_pos, all_records, reqLog, pageLog, respLog, df_raw,
                   printed, filtered, final, tVars, auxVars>>

----------------------------------------------------------------------------
(* One run of one script *)

IdleT ==
    /\ tbatch = <<>>
    /\ ttarget = <<>>
    /\ tlines = UnsetFrame
    /\ tout = UnsetFrame

IdleN ==
    /\ nin = NoneV
    /\ nout = <<>>

\* No response received.
NoResponse == [kind |-> "none", status_code |-> 0, headers |-> <<>>]

IdleL ==
    /\ WP_PASSWORD = NoneV
    /\ wp_requests = <<>>
    /\ response = NoResponse
    /\ total_students = NoneV

FetchSlots == 1..2

Init ==
    /\ script \in Scripts
    /\ pc = "config"
    /\ outcome = Running
    /\ store = StoredToken
    /\ initial_token = NoToken
    /\ new_refresh_token = NoToken
    /\ access_token = NoToken
    /\ storeWrites = <<>>
    /\ serverLen \in [Resources -> 0..MaxServerRecords]
    /\ \A r \in Resources :
         r \notin {Resource(FetchFns(script)[i]) : i \in 1..Len(FetchFns(script))}
            => serverLen[r] = 0
    /\ fi = 1
    /\ start_pos = InitialStartPos
    /\ all_records = <<>>
    /\ reqLog = [i \in FetchSlots |-> <<>>]
    /\ pageLog = [i \in FetchSlots |-> <<>>]
    /\ respLog = [i \in FetchSlots |-> [status |-> 0, body |-> ""]]
    /\ df_raw = [i \in 1..Len(FetchFns(script)) |-> UnsetFrame]
    /\ printed = <<>>
    /\ filtered = <<>>
    /\ final = UnsetFrame
    /\ loads = <<>>
    /\ dest = PriorTable
    /\ credLog = <<>>
    /\ jobs = <<>>
    /\ runNo = 1
    /\ IdleT
    /\ IdleN
    /\ IdleL

Next ==
    \/ LoadConfig
    \/ GetLatestRefreshToken
    \/ RefreshFail
    \/ RefreshOk
    \/ FetchPageOk
    \/ FetchPageFail
    \/ Transform
    \/ BqAuth
    \/ Load

Spec == Init /\ [][Next]_vars

----------------------------------------------------------------------------
(* SpecR: the pipeline run again against the same source data *)

\* The number of runs of a pipeline in a row.
MaxRuns == 2

\* The script is started again after a run that loaded its table: the new
\* process starts from nothing but the stored token and the destination table.
Rerun ==
    /\ pc = "end"
    /\ runNo < MaxRuns
    /\ Len(jobs) = runNo
    /\ jobs[runNo].committed
    /\ runNo' = runNo + 1
    /\ pc' = "config"
    /\ outcome' = Running
    /\ initial_token' = NoToken
    /\ access_token' = NoToken
    /\ fi' = 1
    /\ start_pos' = InitialStartPos
    /\ all_records' = <<>>
    /\ reqLog' = [i \in FetchSlots |-> <<>>]
    /\ pageLog' = [i \in FetchSlots |-> <<>>]
    /\ respLog' = [i \in FetchSlots |-> [status |-> 0, body |-> ""]]
    /\ df_raw' = [i \in 1..Len(FetchFns(script)) |-> UnsetFrame]
    /\ printed' = <<>>
    /\ filtered' = <<>>
    /\ final' = UnsetFrame
    /\ credLog' = <<>>
    /\ new_refresh_token' = NoToken
    /\ UNCHANGED <<script, store, storeWrites, serverLen, loads, dest, jobs, tVars, nVars, lVars>>

NextR == Next \/ Rerun

SpecR == Init /\ [][NextR]_vars

----------------------------------------------------------------------------
(* SpecT: the transformation of one fetched frame, on bounded inputs *)

\* A batch has 0..MaxRecords records.
MaxRecords == 2

RecordSamples ==
    { ReceiptPool[1], ReceiptPool[2], ReceiptPool[3], InvoicePool[3],
      Rec("S1", AllKeys \ {"Line"}, TRUE, StrV(SampleName.Acme), "2024-01-05", <<>>, NumV(5), NumV(0)),
      Rec("S2", AllKeys, FALSE, NoneV, "not a date", <<SampleLine.E, SampleLine.F, OtherLine>>,
          StrV(SampleName.Widget), NumV(0)),
      Rec("S3", AllKeys \ {"CustomerRef", "Balance"}, FALSE, NoneV, "2024-01-05",
          <<SampleLine.G, SampleLine.H>>, NumV(4), NumV(0)),
      Rec("S4", AllKeys \ {"TxnDate"}, TRUE, NoneV, "", <<SampleLine.J, SampleLine.J>>, NumV(8), NumV(1)),
      Rec("S5", AllKeys \ {"Balance"}, TRUE, StrV(SampleName.Acme), "2024-02-29", <<SampleLine.J>>,
          NumV(4), NumV(0)) }

Batches == UNION {[1..n -> RecordSamples] : n \in 0..MaxRecords}

TargetSamples ==
    {TargetWAHS, TargetPROD, TargetSANDBOX, SampleName.PaddedPROD, NameNone, SampleName.Gadget,
     SampleName.PadWidget, <<>>}

TScripts == {"WAHS", "PROD", "SANDBOX"}

\* The fetch function whose frame a script's transformation starts from.
FirstFn(s) == FetchFns(s)[1]

IdleRun ==
    /\ outcome = Running
    /\ store = StoredToken
    /\ initial_token = NoToken
    /\ new_refresh_token = NoToken
    /\ access_token = NoToken
    /\ storeWrites = <<>>
    /\ serverLen = [r \in Resources |-> 0]
    /\ fi = 1
    /\ start_pos = InitialStartPos
    /\ all_records = <<>>
    /\ reqLog = [i \in FetchSlots |-> <<>>]
    /\ pageLog = [i \in FetchSlots |-> <<>>]
    /\ respLog = [i \in FetchSlots |-> [status |-> 0, body |-> ""]]
    /\ df_raw = <<>>
    /\ printed = <<>>
    /\ filtered = <<>>
    /\ final = UnsetFrame
    /\ loads = <<>>
    /\ dest = PriorTable
    /\ credLog = <<>>
    /\ jobs = <<>>
    /\ runNo = 1

InitT ==
    /\ script \in TScripts
    /\ pc = "t_start"
    /\ tbatch \in Batches
    /\ ttarget \in TargetSamples
    /\ tlines = UnsetFrame
    /\ tout = UnsetFrame
    /\ IdleRun
    /\ IdleN
    /\ IdleL

\* Steps 1-3 of the transformation: header fields, explode, item names.  An
\* empty fetched frame is returned as an empty frame before any of them.
TFlatten ==
    /\ pc = "t_start"
    /\ LET fr == MakeFrame(FirstFn(script), tbatch)
       IN IF IsEmpty(fr)
          THEN tlines' = EmptyFrame(EMPTY_COLS(script)) /\ pc' = "t_empty"
          ELSE /\ tlines' = Flatten(script, fr)
               /\ pc' = IF Flatten(script, fr).err # "" THEN "t_raised" ELSE "t_flat"
    /\ UNCHANGED <<script, outcome, store, initial_token, access_token, storeWrites,
                   serverLen, fi, start_pos, all_records, reqLog, pageLog, respLog,
                   df_raw, printed, filtered, final, loads, dest>>
    /\ UNCHANGED <<tbatch, ttarget, tout>>
    /\ UNCHANGED <<credLog, jobs, runNo, auxVars>>
\* The filter on the normalized item name.
TFilter ==
    /\ pc = "t_flat"
    /\ tout' = FilterRows(tlines, NormalizeTarget(script, ttarget))
    /\ pc' = "t_done"
    /\ UNCHANGED <<script, outcome, store, initial_token, access_token, storeWrites,
                   serverLen, fi, start_pos, all_records, reqLog, pageLog, respLog,
                   df_raw, printed, filtered, final, loads, dest>>
    /\ UNCHANGED <<tbatch, ttarget, tlines>>
    /\ UNCHANGED <<credLog, jobs, runNo, auxVars>>
\* The rest of the transformation: the columns kept from the filtered lines
\* and the final table built from them.
TFinal ==
    /\ pc \in {"t_empty", "t_done"}
    /\ LET kept  == IF pc = "t_empty" THEN tlines ELSE ProcessTail(script, tout)
           table == IF script = "SANDBOX"
                    THEN (IF pc = "t_empty" THEN EmptyFrame(EmptyFinalCols("SANDBOX"))
                          ELSE SandboxTail(tout))
                    ELSE Assemble(script, <<kept>>)
       IN /\ final' = table
          /\ pc' = IF table.err # "" THEN "t_final_raised" ELSE "t_final"
    /\ UNCHANGED <<script, outcome, store, initial_token, access_token, storeWrites,
                   serverLen, fi, start_pos, all_records, reqLog, pageLog, respLog,
                   df_raw, printed, filtered, loads, dest, credLog, jobs, runNo>>
    /\ UNCHANGED <<tVars, auxVars>>

NextT == TFlatten \/ TFilter \/ TFinal

SpecT == InitT /\ [][NextT]_vars

----------------------------------------------------------------------------
(* Properties of the paged fetch (Spec) *)

Slots == 1..Len(FetchFns(script))
FnAt(i) == FetchFns(script)[i]
ServerCount(i) == serverLen[Resource(FnAt(i))]

\* Fetch function i has returned its frame.
FetchReturned(i) == pc \notin {"t_start", "t_flat", "t_empty", "t_raised", "t_done"}
                    /\ i \in DOMAIN df_raw /\ df_raw[i].err = ""
\* Fetch function i got a non-200 response.
FetchFailed(i) == respLog[i].status \in ErrorStatuses

LastPage(i) == pageLog[i][Len(pageLog[i])]

\* The number of the first page with fewer than max_results records.
FirstShortPage(i) == (ServerCount(i) \div max_results) + 1

RECURSIVE ConcatPages(_)
ConcatPages(pages) == IF pages = <<>> THEN <<>> ELSE Head(pages) \o ConcatPages(Tail(pages))

RECURSIVE SumLen(_)
SumLen(pages) == IF pages = <<>> THEN 0 ELSE Len(Head(pages)) + SumLen(Tail(pages))

IdsOfRows(rows) == [k \in 1..Len(rows) |-> rows[k]["Id"]]
IdsOfRecs(recs) == [k \in 1..Len(recs) |-> recs[k].Id]

\* C1 (as stated): every fetch function returns only after a page with fewer
\* than max_results records; a page of exactly max_results records is followed
\* by one more request.
C1_StopsOnlyAfterShortPage ==
    \A i \in Slots :
        FetchReturned(i) =>
            /\ pageLog[i] # <<>>
            /\ Len(LastPage(i)) < max_results

\* C1 (amended): every fetch function but PROD's fetch_qbo_invoices_raw returns
\* only after a page with fewer than max_results records, every page before it
\* having exactly max_results records; PROD's fetch_qbo_invoices_raw returns
\* after its first page, whatever its length.
C1_StopsOnlyAfterShortPageUnlessCapped ==
    \A i \in Slots :
        FetchReturned(i) =>
            /\ pageLog[i] # <<>>
            /\ FnAt(i) # "PROD_INV" =>
                 /\ Len(LastPage(i)) < max_results
                 /\ \A j \in 1..(Len(pageLog[i]) - 1) : Len(pageLog[i][j]) = max_results
            /\ FnAt(i) = "PROD_INV" => Len(pageLog[i]) = 1

\* A fetch that got a page of exactly max_results records, then an empty page.
C1_Witness ==
    \E i \in Slots :
        /\ FetchReturned(i)
        /\ FnAt(i) # "PROD_INV"
        /\ Len(pageLog[i]) = 2
        /\ Len(pageLog[i][1]) = max_results
        /\ pageLog[i][2] = <<>>

\* C7 (as stated): a non-2xx response fails the fetch with an error that
\* carries the status code and the response body.
C7_ErrorCarriesStatusAndBody ==
    \A i \in Slots :
        FetchFailed(i) =>
            /\ outcome.kind = "raised"
            /\ StatusStr(respLog[i].status) \in Range(outcome.args)
            /\ respLog[i].body \in Range(outcome.args)

\* C7 (amended): a response whose status is not 200 fails the fetch at once with
\* an exception that carries a fixed message only; the status code is printed,
\* and so is the body except by the 401 branch of fetch_qbo_payments_raw; the
\* failing request is the last request of the run and the fetch returns no frame.
C7_FailsAtOnceWithFixedMessage ==
    \A i \in Slots :
        FetchFailed(i) =>
            /\ pc = "end"
            /\ outcome.kind = "raised"
            /\ outcome.args = <<ErrorMessage(FnAt(i), respLog[i].status)>>
            /\ StatusStr(respLog[i].status) \notin Range(outcome.args)
            /\ respLog[i].body \notin Range(outcome.args)
            /\ StatusStr(respLog[i].status) \in Range(printed)
            /\ (FnAt(i) # "TEST_PAY" \/ respLog[i].status # 401) => respLog[i].body \in Range(printed)
            /\ Len(reqLog[i]) = Len(pageLog[i]) + 1
            /\ \A j \in Slots : j > i => reqLog[j] = <<>>
            /\ df_raw[i] = UnsetFrame
            /\ loads = <<>>

\* A fetch that failed on its second page, after a full first page.
C7_Witness ==
    \E i \in Slots :
        /\ FetchFailed(i)
        /\ Len(pageLog[i]) = 1
        /\ Len(pageLog[i][1]) = max_results
        /\ Len(reqLog[i]) = 2

\* C8 (as stated): every fetch requests each page up to the first short page
\* once, then returns; it issues no request after the first short page.
C8_RequestsUpToFirstShortPage ==
    \A i \in Slots :
        /\ Len(reqLog[i]) <= FirstShortPage(i)
        /\ FetchReturned(i) => Len(reqLog[i]) = FirstShortPage(i)

\* C8 (amended): every fetch function but PROD's fetch_qbo_invoices_raw requests
\* each page up to the first short page once, then returns, and issues no
\* request after the first short page; PROD's fetch_qbo_invoices_raw requests
\* the first page only and returns.
C8_RequestsUpToFirstShortPageUnlessCapped ==
    \A i \in Slots :
        /\ Len(reqLog[i]) <= FirstShortPage(i)
        /\ \A j, k \in 1..Len(reqLog[i]) : j # k => reqLog[i][j].start # reqLog[i][k].start
        /\ FetchReturned(i) =>
             /\ FnAt(i) # "PROD_INV" => Len(reqLog[i]) = FirstShortPage(i)
             /\ FnAt(i) = "PROD_INV" => Len(reqLog[i]) = 1

\* A fetch that returned after two full pages and a short third page.
C8_Witness ==
    \E i \in Slots :
        /\ FetchReturned(i)
        /\ Len(reqLog[i]) = 3
        /\ Len(pageLog[i][2]) = max_results
        /\ Len(pageLog[i][3]) < max_results

\* C9: the records a fetch returns are the concatenation, in request order, of
\* the pages it received, duplicates kept: as many records as the pages hold,
\* one request per page; with max_results = 2 and pages of 2 and 1 records,
\* 2 requests and 3 records.
C9_ReturnsConcatenationOfPages ==
    \A i \in Slots :
        FetchReturned(i) =>
            /\ IdsOfRows(df_raw[i].rows) = IdsOfRecs(ConcatPages(pageLog[i]))
            /\ Len(df_raw[i].rows) = SumLen(pageLog[i])
            /\ Len(reqLog[i]) = Len(pageLog[i])
            /\ \A k \in 1..Len(df_raw[i].rows) :
                 df_raw[i].rows[k]["Id"] = RecordAt(Resource(FnAt(i)), k).Id
            /\ (max_results = 2 /\ Len(pageLog[i]) = 2
                  /\ Len(pageLog[i][1]) = 2 /\ Len(pageLog[i][2]) = 1)
                 => (Len(reqLog[i]) = 2 /\ Len(df_raw[i].rows) = 3)

\* A fetch that returned a record Id twice, served on two different pages.
C9_Witness ==
    \E i \in Slots :
        /\ FetchReturned(i)
        /\ Len(pageLog[i]) >= 2
        /\ \E a \in 1..Len(pageLog[i][1]), b \in 1..Len(pageLog[i][2]) :
             pageLog[i][1][a].Id = pageLog[i][2][b].Id
        /\ \E j, k \in 1..Len(df_raw[i].rows) :
             j # k /\ df_raw[i].rows[j]["Id"] = df_raw[i].rows[k]["Id"]

\* C10: the k-th request of a fetch carries STARTPOSITION 1 + (k-1)*max_results
\* and MAXRESULTS max_results.
C10_CursorOfKthRequest ==
    \A i \in Slots :
        \A k \in 1..Len(reqLog[i]) :
            /\ reqLog[i][k].start = 1 + (k - 1) * max_results
            /\ reqLog[i][k].max = max_results

\* A fetch that issued three requests.
C10_Witness ==
    \E i \in Slots : Len(reqLog[i]) = 3 /\ reqLog[i][3].start = 1 + 2 * max_results

\* C6: in the pipelines that fetch two resource types, a run in which a fetch
\* failed issues no warehouse load and leaves the destination as it was.
C6_NoLoadAfterFailedFetch ==
    (script \in {"WAHS", "PROD"} /\ \E i \in Slots : FetchFailed(i)) =>
        /\ loads = <<>>
        /\ dest = PriorTable
        /\ pc = "end"

\* The receipts were fetched, with rows, and the invoice fetch failed.
C6_Witness ==
    /\ script \in {"WAHS", "PROD"}
    /\ FetchReturned(1)
    /\ df_raw[1].rows # <<>>
    /\ FetchFailed(2)
    /\ pc = "end"

----------------------------------------------------------------------------
(* Properties of the final table (Spec) *)

\* The columns of the final table of a run that found matching rows.
TargetCols(s) ==
    IF s = "WAHS"
    THEN <<"transaction_id", "customer_name", "transaction_date", "product_name",
           "transaction_type", "total_amount">>
    ELSE <<"transaction_id", "customer_name", "transaction_date", "product_name",
           "transaction_type", "quantity", "sales_price", "total_amount">>

\* C2: the final table of a receipts-and-invoices pipeline has the same columns
\* in the same order in every run, whichever resource types had matching rows;
\* when no filtered frame has rows it is a zero-row table with these columns.
C2_FinalTableHasFixedColumns ==
    (script \in {"WAHS", "PROD"} /\ pc \in {"bq_auth", "load", "end"} /\ final.err = "") =>
        /\ final.cols = TargetCols(script)
        /\ \A k \in 1..Len(loads) : loads[k].cols = TargetCols(script)
        /\ (\A i \in 1..Len(filtered) : filtered[i].rows = <<>>) => final.rows = <<>>

----------------------------------------------------------------------------
(* Properties of the transformation (SpecT) *)

\* The number of rows record r explodes to.
RowCountOf(r) == IF "Line" \in r.keys /\ r.Line # <<>> THEN Len(r.Line) ELSE 1

RECURSIVE RowsBefore(_, _)
RowsBefore(batch, i) == IF i <= 1 THEN 0 ELSE RowsBefore(batch, i - 1) + RowCountOf(batch[i - 1])

ExpectedRowCount(batch) == RowsBefore(batch, Len(batch) + 1)

\* C3: flattening yields sum(max(1, len(Line))) rows: a record with k >= 1 lines
\* yields k rows, one per line, each with the record's Id, customer_name and
\* transaction_date; a record whose Line array is empty or absent yields one
\* row whose line-derived fields are null.
C3_FlattenRowCount ==
    pc \in {"t_empty", "t_raised", "t_flat", "t_done"} =>
        /\ tlines.err = ""
        /\ Len(tlines.rows) = ExpectedRowCount(tbatch)
        /\ \A i \in 1..Len(tbatch) : \A j \in 1..RowCountOf(tbatch[i]) :
             LET r   == tbatch[i]
                 row == tlines.rows[RowsBefore(tbatch, i) + j]
             IN /\ row["Id"] = r.Id
                /\ row["customer_name"] =
                     (IF "CustomerRef" \in r.keys /\ r.CustomerRef.isDict
                      THEN r.CustomerRef.name ELSE NoneV)
                /\ row["transaction_date"] = ParseDate("TxnDate" \in r.keys, r.TxnDate)
                /\ ("Line" \in r.keys /\ r.Line # <<>>) => row["Line"] = r.Line[j]
                /\ ("Line" \notin r.keys \/ r.Line = <<>>) =>
                     /\ row["Line"] = NaNLine
                     /\ row[RawNameCol(script)] = NoneV
                     /\ script = "PROD" => (row["quantity"] = NoneV /\ row["sales_price"] = NoneV)

\* C4: the filter retains exactly the rows whose normalized item name equals the
\* normalized target, in their order: no other row is retained, none is dropped.
C4_FilterKeepsExactlyEqualNames ==
    pc = "t_done" =>
        /\ tout.err = ""
        /\ \A k \in 1..Len(tlines.rows) :
             tlines.rows[k]["item_name_lower"] =
                 clean_and_lower(script, tlines.rows[k][RawNameCol(script)])
        /\ tout.rows = SelectSeq(tlines.rows,
                                 LAMBDA row : row["item_name_lower"] = NormalizeTarget(script, ttarget))

\* The filter kept a row and dropped one whose name lacks only the target's comma.
C4_Witness ==
    /\ pc = "t_done"
    /\ script = "PROD"
    /\ ttarget = TargetPROD
    /\ tout.rows # <<>>
    /\ \E k \in 1..Len(tlines.rows) :
         /\ tlines.rows[k]["item_name_lower"] = NormalizeTarget("PROD", TargetWAHS)
         /\ \A m \in 1..Len(tout.rows) : tout.rows[m] # tlines.rows[k]

\* The item name the claim states for a line.
ClaimedItemName(line) ==
    IF line.kind = "dict" /\ Truthy(line.Description) THEN line.Description
    ELSE IF line.kind = "dict" /\ line.hasDetail /\ line.ItemRefName # NoneV THEN line.ItemRefName
    ELSE NoneV

\* C5 (as stated): the raw item name of a line is its Description if present and
\* non-empty, otherwise SalesItemLineDetail.ItemRef.name if present, otherwise null.
C5_DescriptionFirst ==
    pc \in {"t_flat", "t_done"} =>
        \A k \in 1..Len(tlines.rows) :
            tlines.rows[k][RawNameCol(script)] = ClaimedItemName(tlines.rows[k]["Line"])

\* C5 (amended): in WAHS the raw item name of a line that is a mapping is the
\* stripped text of its Description if that is present and non-empty, otherwise
\* the stripped text of SalesItemLineDetail.ItemRef.name if present and
\* non-empty, otherwise null; PROD and SANDBOX never read Description: the name is
\* the stripped ItemRef.name, or null.  A line that is no mapping has a null name.
C5_ItemNamePolicyPerScript ==
    pc \in {"t_flat", "t_done"} =>
        \A k \in 1..Len(tlines.rows) :
            LET line == tlines.rows[k]["Line"]
                raw  == tlines.rows[k][RawNameCol(script)]
                item == IF line.hasDetail /\ Truthy(line.ItemRefName)
                        THEN StrV(Strip(PyStr(line.ItemRefName))) ELSE NoneV
            IN /\ line.kind # "dict" => raw = NoneV
               /\ (line.kind = "dict" /\ script = "WAHS" /\ Truthy(line.Description)) =>
                     raw = StrV(Strip(PyStr(line.Description)))
               /\ (line.kind = "dict" /\ script = "WAHS" /\ ~Truthy(line.Description)) => raw = item
               /\ (line.kind = "dict" /\ script # "WAHS") => raw = item

\* WAHS named a line with a Description 'Widget' by it, and a line with an empty
\* Description by its ItemRef name 'Gadget'.
C5_Witness ==
    /\ pc = "t_flat"
    /\ script = "WAHS"
    /\ \E a, b \in 1..Len(tlines.rows) :
         /\ tlines.rows[a]["Line"] = SampleLine.C
         /\ tlines.rows[a]["item_name_raw"] = StrV(SampleName.Widget)
         /\ tlines.rows[b]["Line"] = SampleLine.E
         /\ tlines.rows[b]["item_name_raw"] = StrV(SampleName.Gadget)

----------------------------------------------------------------------------
(* SpecN: the normalization of item names and targets, on bounded inputs *)

\* The strings normalized have up to MaxNormLen characters.
MaxNormLen == 3

NormAlphabet == {" ", "\t", "A", "b"}

NormStrings == UNION {[1..n -> NormAlphabet] : n \in 0..MaxNormLen}

\* What the normalization is applied to: texts, null, numbers.
NormInputs == {StrV(x) : x \in NormStrings} \cup {NoneV, NumV(0), NumV(7)}

InitN ==
    /\ script \in TScripts
    /\ pc = "n_start"
    /\ nin \in NormInputs
    /\ nout = <<>>
    /\ IdleRun
    /\ IdleT
    /\ IdleL

\* normalize(x)
NormalizeOnce ==
    /\ pc = "n_start"
    /\ nout' = <<clean_and_lower(script, nin)>>
    /\ pc' = "n_once"
    /\ UNCHANGED <<script, outcome, store, initial_token, access_token, storeWrites,
                   serverLen, fi, start_pos, all_records, reqLog, pageLog, respLog,
                   df_raw, printed, filtered, final, loads, dest, credLog, jobs, runNo>>
    /\ UNCHANGED <<tVars, nin, new_refresh_token, lVars>>

\* normalize(normalize(x))
NormalizeAgain ==
    /\ pc = "n_once"
    /\ nout' = Append(nout, clean_and_lower(script, nout[1]))
    /\ pc' = "n_twice"
    /\ UNCHANGED <<script, outcome, store, initial_token, access_token, storeWrites,
                   serverLen, fi, start_pos, all_records, reqLog, pageLog, respLog,
                   df_raw, printed, filtered, final, loads, dest, credLog, jobs, runNo>>
    /\ UNCHANGED <<tVars, nin, new_refresh_token, lVars>>

NextN == NormalizeOnce \/ NormalizeAgain

SpecN == InitN /\ [][NextN]_vars

----------------------------------------------------------------------------
(* Properties of the normalization (SpecN) *)

\* C11: in every script the normalization is idempotent: applied to its own
\* result it returns that result, for texts, null and numbers.
C11_NormalizeIdempotent ==
    pc = "n_twice" => nout[2] = nout[1]

\* A text with upper case and a run of whitespace was normalized to another
\* text, and normalizing that again changed nothing.
C11_Witness ==
    /\ pc = "n_twice"
    /\ nin = StrV(<<"A", " ", "\t">>)
    /\ nout[1] = StrV(<<"a">>)
    /\ nout[2] = StrV(<<"a">>)

----------------------------------------------------------------------------
(* Properties of the filter on null names (SpecT) *)

\* C12: a row whose raw item name is null is never retained by the filter,
\* whatever the target string.
C12_NullNameNeverRetained ==
    pc = "t_done" =>
        \A k \in 1..Len(tout.rows) : tout.rows[k][RawNameCol(script)] # NoneV

----------------------------------------------------------------------------
(* Properties of the assembled table (Spec) *)

\* The column of a filtered frame that becomes total_amount.
AmountKey(s) == IF s = "WAHS" THEN "Amount" ELSE "TotalAmt"

\* Final row fr is filtered row r, renamed and with its numbers coerced.
IsFinalRowOf(s, fr, r) ==
    /\ fr["transaction_id"] = r["Id"]
    /\ fr["customer_name"] = r["customer_name"]
    /\ fr["transaction_date"] = r["transaction_date"]
    /\ fr["product_name"] = r["item_name_raw"]
    /\ fr["transaction_type"] = r["transaction_type"]
    /\ fr["total_amount"] = ToNumeric(r[AmountKey(s)])
    /\ s = "PROD" => /\ fr["quantity"] = ToNumeric(r["quantity"])
                     /\ fr["sales_price"] = ToNumeric(r["sales_price"])

\* The transformation of a receipts-and-invoices run has completed.
Assembled ==
    /\ script \in {"WAHS", "PROD"}
    /\ pc \in {"bq_auth", "load", "end"}
    /\ final.err = ""
    /\ Len(filtered) = 2

\* C13: the assembled table holds the filtered sales-receipt rows followed by
\* the filtered invoice rows, each group in its order; an empty filtered frame
\* contributes nothing and leaves the rows of the other frame as they are.
C13_ReceiptsThenInvoices ==
    Assembled =>
        LET rows == filtered[1].rows \o filtered[2].rows
        IN /\ Len(final.rows) = Len(rows)
           /\ \A k \in 1..Len(rows) : IsFinalRowOf(script, final.rows[k], rows[k])

\* Two receipt rows and an invoice row were assembled, the receipts first.
C13_Witness ==
    /\ Assembled
    /\ Len(filtered[1].rows) >= 2
    /\ Len(filtered[2].rows) >= 1
    /\ final.rows[1]["transaction_type"] = "Sales Receipt"
    /\ final.rows[Len(final.rows)]["transaction_type"] = "Invoice"
    /\ \E k \in 1..Len(loads) : loads[k] = final

\* A text that pd.to_numeric reads as a number.
IsNumericText(v) == v.k = "str" /\ Len(v.s) = 1 /\ v.s[1] \in Range(Digits)

\* Cell f is value v read as a number: a number stays, a numeric text becomes
\* a number, anything else becomes null.
CoercedFrom(f, v) ==
    /\ v.k = "num" => f = v
    /\ IsNumericText(v) => f.k = "num"
    /\ (v.k # "num" /\ ~IsNumericText(v)) => f = NoneV

\* The value a filtered row's amount column is read from.
AmountSource(s, r) == IF s = "WAHS" THEN LineAmount(r["Line"]) ELSE r["TotalAmt"]

\* Final row f is filtered row r with only its date and its numbers coerced.
CoercedRowOf(s, f, r) ==
    /\ f["transaction_id"] = r["Id"]
    /\ f["customer_name"] = r["customer_name"]
    /\ f["product_name"] = r["item_name_raw"]
    /\ f["transaction_type"] = r["transaction_type"]
    /\ f["transaction_date"] = IF r["TxnDate"] \in ValidDates THEN r["TxnDate"] ELSE NaT
    /\ CoercedFrom(f["total_amount"], AmountSource(s, r))
    /\ s = "PROD" => /\ CoercedFrom(f["quantity"], r["quantity"])
                     /\ CoercedFrom(f["sales_price"], r["sales_price"])

\* C14: a date that cannot be parsed or a non-numeric amount, quantity or price
\* never aborts the transformation and never drops a row: every filtered row
\* is in the final table, with a null where the value could not be read and
\* every other field as it was; the transformation fails only over a column
\* that the fetched records do not have.
C14_CoercionKeepsRows ==
    script \in {"WAHS", "PROD"} =>
        /\ (pc = "t_final" /\ tout.err = "") =>
               /\ Len(final.rows) = Len(tout.rows)
               /\ \A k \in 1..Len(tout.rows) :
                      CoercedRowOf(script, final.rows[k], tout.rows[k])
        /\ pc = "t_final_raised" =>
               /\ tout.err = ""
               /\ \E c \in Range(KeptCols(script)) \ {"Amount"} : c \notin Range(tout.cols)

\* A retained row whose date cannot be parsed and whose total is a text is in
\* the final table with both columns null, and a retained row with a
\* non-numeric quantity is there with a null quantity.
C14_Witness ==
    /\ pc = "t_final"
    /\ script = "PROD"
    /\ tout.err = ""
    /\ \E k \in 1..Len(tout.rows) :
           /\ tout.rows[k]["TxnDate"] = "not a date"
           /\ tout.rows[k]["TotalAmt"] = StrV(SampleName.Widget)
           /\ final.rows[k]["transaction_date"] = NaT
           /\ final.rows[k]["total_amount"] = NoneV
           /\ final.rows[k]["product_name"] = StrV(SampleName.Gadget)

\* C15: every run of run_pipeline ends by returning a message with status 200
\* or 500, and 200 only after the load job has committed.
C15_AlwaysReturnsStatus ==
    (script = "WAHS" /\ pc = "end") =>
        /\ outcome.kind = "returned"
        /\ outcome.code \in {200, 500}
        /\ outcome.code = 200 => (jobs # <<>> /\ jobs[Len(jobs)].committed)

\* C16: a run whose load job failed ends with a non-success return value or
\* exit signal, never with the outcome of a successful run, and it has issued
\* the load once.
C16_FailedLoadIsSurfaced ==
    (pc = "end" /\ jobs # <<>> /\ ~jobs[Len(jobs)].committed) =>
        /\ outcome # AfterLoadSuccess(script)
        /\ \/ outcome.kind = "returned" /\ outcome.code = 500
           \/ outcome.kind = "exited" /\ outcome.code # 0
           \/ outcome.kind = "raised"
        /\ Len(jobs) = 1

\* The k-th run of the pipeline has ended with its load job committed.
RunLoaded(k) == pc = "end" /\ runNo = k /\ Len(jobs) = k /\ jobs[k].committed

\* C17: after a run that loaded its table the destination is exactly that
\* run's final table, with no row it held before the first run; the
\* destination is at every moment either the prior table or a table some run
\* loaded, never a mix; and every later successful run against the same source
\* data leaves the destination as the first successful run left it.
C17_ReplaceIsIdempotent ==
    /\ dest \in {PriorTable} \cup Range(loads)
    /\ \A k \in 1..MaxRuns :
           RunLoaded(k) =>
               /\ dest = final
               /\ \A i \in 1..Len(dest.rows) : dest.rows[i] \notin Range(PriorTable.rows)
               /\ \A j \in 1..k : jobs[j].committed => loads[j] = dest

\* A second run has loaded a table with rows over the table of the first run.
C17_Witness ==
    /\ RunLoaded(2)
    /\ jobs[1].committed
    /\ dest.rows # <<>>
    /\ dest = loads[1]
    /\ dest = loads[2]

----------------------------------------------------------------------------
(* SpecP: the ad-spend pacing scripts.  "PACING_M" is                       *)
(* media_pacing_API_call/pacing_script.py, "PACING_C" is                    *)
(* Media Pacing API Connection/pacing_script.py.  The rows to load are in   *)
(* all_records, the destination table in dest, the payload of each load job *)
(* in loads, the secret accesses in credLog.                                *)

PScripts == {"PACING_M", "PACING_C"}

\* The date both scripts stamp on their rows.
Yesterday == StrV(<<"y">>)

\* A response of the Meta insights API has at most MaxItems items.
MaxItems == 2

\* Items of a Meta response: the keys an item has, with their values.
MetaItems ==
    { [campaign_name |-> StrV(<<"A">>), spend |-> StrV(<<"5">>),
       impressions |-> StrV(<<"7">>), clicks |-> StrV(<<"2">>)],
      [campaign_name |-> StrV(<<"b">>)],
      [campaign_name |-> StrV(<<"A">>), spend |-> StrV(<<"A">>)],
      [spend |-> NoneV, clicks |-> NumV(1)] }

\* What requests.get(...).json() gives fetch_meta_data: an exception, a
\* payload with 'error', or a payload with or without 'data'.
MetaResponses ==
    { [kind |-> "exception", hasData |-> FALSE, data |-> <<>>],
      [kind |-> "error", hasData |-> FALSE, data |-> <<>>],
      [kind |-> "ok", hasData |-> FALSE, data |-> <<>>] }
    \cup { [kind |-> "ok", hasData |-> TRUE, data |-> d] :
             d \in UNION {[1..n -> MetaItems] : n \in 0..MaxItems} }

\* item.get(key, default)
ItemGet(item, key, default) == IF key \in DOMAIN item THEN item[key] ELSE default

\* float(x) and int(x) raise on None and on a text that is not a number.
CanConvert(v) == v.k = "num" \/ (v.k = "str" /\ Len(v.s) = 1 /\ v.s[1] \in Range(Digits))

\* The row formatted from one item of the response.
FormatMetaRow(item) ==
    [date |-> Yesterday, platform |-> StrV(<<"M">>),
     campaign_name |-> ItemGet(item, "campaign_name", NoneV),
     spend |-> ToNumeric(ItemGet(item, "spend", NumV(0))),
     impressions |-> ToNumeric(ItemGet(item, "impressions", NumV(0))),
     clicks |-> ToNumeric(ItemGet(item, "clicks", NumV(0)))]

\* Whether formatting the items raises (caught by fetch_meta_data).
FormatRaises(items) ==
    \E i \in 1..Len(items), key \in {"spend", "impressions", "clicks"} :
        ~CanConvert(ItemGet(items[i], key, NumV(0)))

\* A fetch that returns the rows it formatted before an item raised.
RECURSIVE FormattedBeforeRaise(_)
FormattedBeforeRaise(items) ==
    IF items = <<>> \/ FormatRaises(<<Head(items)>>) THEN <<>>
    ELSE <<FormatMetaRow(Head(items))>> \o FormattedBeforeRaise(Tail(items))
fetch_meta_data_KeepsPartial(resp) ==
    IF resp.kind # "ok" \/ ~resp.hasData THEN <<>> ELSE FormattedBeforeRaise(resp.data)

\* fetch_meta_data(): [] on an error payload and on any exception
fetch_meta_data(resp) ==
    IF resp.kind # "ok" THEN <<>>
    ELSE LET items == IF resp.hasData THEN resp.data ELSE <<>>
         IN IF FormatRaises(items) THEN <<>>
            ELSE [i \in 1..Len(items) |-> FormatMetaRow(items[i])]

\* What fetch_meta_data prints.
MetaPrinted(resp) ==
    CASE resp.kind = "error" -> <<"Meta Error">>
      [] resp.kind = "exception" -> <<"Meta Exception">>
      [] resp.kind = "ok" /\ resp.hasData /\ FormatRaises(resp.data) -> <<"Meta Exception">>
      [] OTHER -> <<>>

\* dummy_data of "PACING_C": a Meta row with link_clicks, a Snapchat row with
\* swipe_ups.
dummy_data ==
    << [date |-> Yesterday, platform |-> StrV(<<"M">>), campaign_name |-> StrV(<<"R">>),
        spend |-> NumV(5), impressions |-> NumV(1), link_clicks |-> NumV(3)],
       [date |-> Yesterday, platform |-> StrV(<<"S">>), campaign_name |-> StrV(<<"B">>),
        spend |-> NumV(2), impressions |-> NumV(4), swipe_ups |-> NumV(1)] >>

\* The order in which columns join the schema of the destination.
PacingColumns ==
    <<"date", "platform", "campaign_name", "spend", "impressions", "clicks",
      "link_clicks", "swipe_ups">>

\* The destination before the script runs: not yet created, holding rows with
\* a column no script writes, or holding rows a script wrote.
PriorPacingTables ==
    { Frame(<<>>, <<>>),
      Frame(<<"date", "legacy_note">>,
            <<[date |-> StrV(<<"x">>), legacy_note |-> StrV(<<"n">>)]>>),
      Frame(<<"date", "platform", "campaign_name", "spend", "impressions", "clicks">>,
            <<FormatMetaRow([campaign_name |-> StrV(<<"A">>)]),
              FormatMetaRow([campaign_name |-> StrV(<<"b">>), spend |-> NumV(3)])>>) }

\* A row as the table with columns cols holds it: null in a column it lacks.
Pad(row, cols) == [c \in Range(cols) |-> IF c \in DOMAIN row THEN row[c] ELSE NoneV]

\* The columns of the rows of data that the schema cols lacks.
AddedColumns(cols, data) ==
    SelectSeq(PacingColumns,
              LAMBDA c : c \notin Range(cols) /\ \E k \in 1..Len(data) : c \in DOMAIN data[k])

\* A load that replaces the table by the loaded rows.
WriteAppendReplacing(old, data) ==
    LET cols == AddedColumns(<<>>, data)
    IN Frame(cols, [k \in 1..Len(data) |-> Pad(data[k], cols)])

\* WRITE_APPEND with autodetect and ALLOW_FIELD_ADDITION: the table a committed
\* load job leaves, from the table it found and the rows it loaded.
WriteAppend(old, data) ==
    LET cols == old.cols \o AddedColumns(old.cols, data)
    IN Frame(cols, [i \in 1..Len(old.rows) |-> Pad(old.rows[i], cols)]
                   \o [k \in 1..Len(data) |-> Pad(data[k], cols)])

\* The variables the pacing scripts do not use.
IdleFetch ==
    /\ store = StoredToken
    /\ initial_token = NoToken
    /\ new_refresh_token = NoToken
    /\ access_token = NoToken
    /\ storeWrites = <<>>
    /\ serverLen = [r \in Resources |-> 0]
    /\ fi = 1
    /\ start_pos = InitialStartPos
    /\ reqLog = [i \in FetchSlots |-> <<>>]
    /\ pageLog = [i \in FetchSlots |-> <<>>]
    /\ respLog = [i \in FetchSlots |-> [status |-> 0, body |-> ""]]
    /\ df_raw = <<>>
    /\ filtered = <<>>
    /\ final = UnsetFrame

fetchVars == <<store, initial_token, access_token, storeWrites, serverLen, fi, start_pos,
               reqLog, pageLog, respLog, df_raw, filtered, final>>

InitP ==
    /\ script \in PScripts
    /\ pc = "p_main"
    /\ outcome = Running
    /\ all_records = <<>>
    /\ printed = <<>>
    /\ loads = <<>>
    /\ dest \in PriorPacingTables
    /\ credLog = <<>>
    /\ jobs = <<>>
    /\ runNo = 1
    /\ IdleFetch
    /\ IdleT
    /\ IdleN
    /\ IdleL

\* "PACING_M" main: all_data.extend(fetch_meta_data())
PFetchMeta ==
    /\ pc = "p_main"
    /\ script = "PACING_M"
    /\ \E resp \in MetaResponses :
         /\ all_records' = all_records \o fetch_meta_data(resp)
         /\ printed' = printed \o MetaPrinted(resp)
    /\ pc' = "p_load"
    /\ UNCHANGED <<script, outcome, loads, dest, credLog, jobs, runNo, fetchVars,
                   tVars, auxVars>>

\* "PACING_C" main: the simulated fetch
PDummyData ==
    /\ pc = "p_main"
    /\ script = "PACING_C"
    /\ all_records' = dummy_data
    /\ pc' = "p_load"
    /\ UNCHANGED <<script, outcome, printed, loads, dest, credLog, jobs, runNo, fetchVars,
                   tVars, auxVars>>

\* "PACING_M" load_to_bigquery: if not data: print(...); return
PLoadNothing ==
    /\ pc = "p_load"
    /\ script = "PACING_M"
    /\ all_records = <<>>
    /\ printed' = Append(printed, "No data to load.")
    /\ pc' = "p_end"
    /\ outcome' = Exited(0)
    /\ UNCHANGED <<script, all_records, loads, dest, credLog, jobs, runNo, fetchVars,
                   tVars, auxVars>>

\* load_to_bigquery: get_creds_from_secret_manager(), which prints and
\* re-raises on a failure; nothing catches the exception.
PGetCreds ==
    /\ pc = "p_load"
    /\ script = "PACING_M" => all_records # <<>>
    /\ \E ok \in BOOLEAN :
         /\ credLog' = Append(credLog, IF ok THEN "read_ok" ELSE "read_failed")
         /\ IF ok THEN pc' = "p_job" /\ UNCHANGED outcome
            ELSE pc' = "p_end" /\ outcome' = Raised(<<"secret">>)
    /\ UNCHANGED <<script, all_records, printed, loads, dest, jobs, runNo, fetchVars,
                   tVars, auxVars>>

\* load_to_bigquery: load_table_from_file(ndjson, WRITE_APPEND); job.result();
\* a failure is printed and the function returns.
PLoadJob ==
    /\ pc = "p_job"
    /\ loads' = Append(loads, all_records)
    /\ \E ok \in BOOLEAN :
         /\ dest' = IF ok THEN WriteAppend(dest, all_records) ELSE dest
         /\ jobs' = Append(jobs, [committed |-> ok, before |-> dest, table |-> dest'])
         /\ printed' = Append(printed, IF ok THEN "Success" ELSE "Error loading data")
    /\ pc' = "p_end"
    /\ outcome' = Exited(0)
    /\ UNCHANGED <<script, all_records, credLog, runNo, fetchVars, tVars, auxVars>>

\* load_to_bigquery is called again with the same rows.
PLoadAgain ==
    /\ pc = "p_end"
    /\ outcome = Exited(0)
    /\ runNo < MaxRuns
    /\ runNo' = runNo + 1
    /\ pc' = "p_load"
    /\ outcome' = Running
    /\ UNCHANGED <<script, all_records, printed, loads, dest, credLog, jobs, fetchVars,
                   tVars, auxVars>>

NextP ==
    \/ PFetchMeta
    \/ PDummyData
    \/ PLoadNothing
    \/ PGetCreds
    \/ PLoadJob
    \/ PLoadAgain

SpecP == InitP /\ [][NextP]_vars

\* Table new is table old with the rows of data added after its rows: no
\* column of old is missing, every row of old has its values, and the rows of
\* data follow in their order.
AppendedTo(old, new, data) ==
    /\ Range(old.cols) \subseteq Range(new.cols)
    /\ Len(new.rows) = Len(old.rows) + Len(data)
    /\ \A i \in 1..Len(old.rows) : \A c \in Range(old.cols) : new.rows[i][c] = old.rows[i][c]
    /\ \A k \in 1..Len(data) : \A c \in DOMAIN data[k] :
           /\ c \in Range(new.cols)
           /\ new.rows[Len(old.rows) + k][c] = data[k][c]

\* C18: a committed load job of a pacing script leaves the destination as it
\* was with the loaded rows added after the rows it held, no column removed;
\* a failed job leaves the destination as it was; and two committed loads of
\* the same rows leave two copies of them after the rows held before.
C18_AppendKeepsRows ==
    (script \in PScripts) =>
        /\ Len(jobs) = Len(loads)
        /\ \A j \in 1..Len(jobs) :
               /\ jobs[j].committed => AppendedTo(jobs[j].before, jobs[j].table, loads[j])
               /\ ~jobs[j].committed => jobs[j].table = jobs[j].before
               /\ j > 1 => jobs[j].before = jobs[j - 1].table
        /\ jobs # <<>> => dest = jobs[Len(jobs)].table
        /\ (Len(jobs) = 2 /\ jobs[1].committed /\ jobs[2].committed) =>
               LET n == Len(all_records)
                   m == Len(jobs[1].before.rows)
               IN /\ loads[1] = all_records /\ loads[2] = all_records
                  /\ Len(dest.rows) = m + n + n
                  /\ \A k \in 1..n : \A c \in DOMAIN all_records[k] :
                         /\ dest.rows[m + k][c] = all_records[k][c]
                         /\ dest.rows[m + n + k][c] = all_records[k][c]

\* The rows were loaded twice into a table that held a row with a column the
\* rows lack: the column is kept and the table holds the row and two copies.
C18_Witness ==
    /\ script = "PACING_C"
    /\ pc = "p_end"
    /\ Len(jobs) = 2 /\ jobs[1].committed /\ jobs[2].committed
    /\ "legacy_note" \in Range(dest.cols)
    /\ "swipe_ups" \in Range(dest.cols)
    /\ Len(dest.rows) = 5
    /\ dest.rows[1]["legacy_note"] = StrV(<<"n">>)
    /\ dest.rows[3]["swipe_ups"] = NumV(1)
    /\ dest.rows[5]["swipe_ups"] = NumV(1)

\* The run has ended at startup: with a failure outcome, without a request to
\* the accounting API and without a load.
AbortedAtStartup ==
    /\ pc = "end"
    /\ \/ outcome.kind = "returned" /\ outcome.code = 500
       \/ outcome.kind = "exited" /\ outcome.code = 1
    /\ \A i \in FetchSlots : reqLog[i] = <<>>
    /\ loads = <<>>
    /\ jobs = <<>>

\* C19 as stated: a failed read of the stored token, a failed token refresh or
\* a failed write of the rotated token aborts the run before any request and
\* any load.
C19_CredentialFailureIsFatal ==
    (script \in Scripts /\ \E i \in 1..Len(credLog) :
         credLog[i] \in {"read_failed", "refresh_failed", "write_failed"})
        => AbortedAtStartup

\* C19: a failed read of the stored token or a failed token refresh aborts the
\* run before any request and any load, in every script; a failed write of the
\* rotated token does so in the scripts that keep the token in their
\* configuration file, while run_pipeline goes on to fetch.
C19_CredentialFailureIsFatalExceptVaultWrite ==
    /\ (script \in Scripts /\ \E i \in 1..Len(credLog) :
            \/ credLog[i] \in {"read_failed", "refresh_failed"}
            \/ credLog[i] = "write_failed" /\ script # "WAHS")
           => AbortedAtStartup
    /\ (script = "WAHS" /\ \E i \in 1..Len(credLog) : credLog[i] = "write_failed")
           => /\ pc # "refresh"
              /\ access_token \in AccessTokens
              /\ store = StoredToken
              /\ \A i \in 1..Len(credLog) : credLog[i] \notin {"read_failed", "refresh_failed"}

\* A script failed to write the rotated token to its configuration file and
\* exited at once.
C19_Witness ==
    /\ script = "PROD"
    /\ credLog = <<"read_ok", "refresh_ok", "write_failed">>
    /\ AbortedAtStartup
    /\ outcome = Exited(1)

\* The requests of the run, of every fetch function, in the order issued.
AllRequests == reqLog[1] \o reqLog[2]

\* C20: the access token is obtained once, before the first request; every
\* request of every resource type and every page carries it; and once a
\* request has been issued the token is never obtained again or replaced, not
\* even after a 401 response, which ends the run.
C20_OneTokenPerRun ==
    script \in Scripts =>
        /\ \A k \in 1..Len(AllRequests) : AllRequests[k].token = access_token
        /\ AllRequests # <<>> =>
               /\ access_token \in AccessTokens
               /\ pc \notin {"config", "get_token", "refresh"}
               /\ Len(SelectSeq(credLog, LAMBDA e : e = "refresh_ok")) = 1
               /\ "refresh_failed" \notin Range(credLog)
        /\ (\E i \in FetchSlots : respLog[i].status = 401) => pc = "end"

\* A run sent several pages of sales-receipt queries and an invoice query, all
\* with its one token, and the invoice query was answered 401.
C20_Witness ==
    /\ script = "WAHS"
    /\ Len(reqLog[1]) >= 2
    /\ Len(reqLog[2]) >= 1
    /\ respLog[2].status = 401
    /\ \A k \in 1..Len(AllRequests) : AllRequests[k].token = "atB"
    /\ pc = "end"

----------------------------------------------------------------------------
(* Properties of the normalization in the filter (SpecT) *)

\* The words of a text: its maximal runs of non-whitespace characters, in
\* lower case.
RECURSIVE WordsFrom(_, _, _)
WordsFrom(s, cur, out) ==
    IF s = <<>> THEN (IF cur = <<>> THEN out ELSE Append(out, cur))
    ELSE IF Head(s) \in Whitespace
         THEN WordsFrom(Tail(s), <<>>, IF cur = <<>> THEN out ELSE Append(out, cur))
         ELSE WordsFrom(Tail(s), Append(cur, LowerChar(Head(s))), out)

WordsOf(s) == WordsFrom(s, <<>>, <<>>)

\* Two texts are equal up to letter case and the amount and kind of whitespace.
SameUpToCaseAndSpace(a, b) == WordsOf(a) = WordsOf(b)

\* Text n is in normal form: no upper-case letter, no whitespace but single
\* spaces between words.
IsNormalForm(n) ==
    /\ \A i \in 1..Len(n) : n[i] \notin (Whitespace \ {" "}) /\ LowerChar(n[i]) = n[i]
    /\ n # <<>> => (n[1] # " " /\ n[Len(n)] # " ")
    /\ \A i \in 1..(Len(n) - 1) : ~(n[i] = " " /\ n[i + 1] = " ")

\* C21: the normalized form of a non-null name is its text in normal form with
\* the same words; the target is normalized by the same function; so a row
\* whose raw name is non-null is retained whenever the target equals the name
\* up to letter case and whitespace.
C21_RetainedUpToCaseAndSpace ==
    pc = "t_done" =>
        /\ IsNormalForm(NormalizeTarget(script, ttarget).s)
        /\ WordsOf(NormalizeTarget(script, ttarget).s) = WordsOf(ttarget)
        /\ \A k \in 1..Len(tlines.rows) :
               LET raw == tlines.rows[k][RawNameCol(script)]
                   low == tlines.rows[k]["item_name_lower"]
               IN raw # NoneV =>
                      /\ low.k = "str"
                      /\ IsNormalForm(low.s)
                      /\ WordsOf(low.s) = WordsOf(PyStr(raw))
                      /\ SameUpToCaseAndSpace(ttarget, PyStr(raw)) =>
                             \E j \in 1..Len(tout.rows) : tout.rows[j] = tlines.rows[k]

\* A line named 'products:We Are   HIPAA SMART' was retained for the target
\* 'Products:We Are HIPAA Smart'.
C21_Witness ==
    /\ pc = "t_done"
    /\ script = "WAHS"
    /\ ttarget = TargetWAHS
    /\ \E j \in 1..Len(tout.rows) :
           /\ tout.rows[j]["item_name_raw"] = StrV(Strip(SampleName.PaddedWAHS))
           /\ tout.rows[j]["item_name_raw"] # StrV(TargetWAHS)

----------------------------------------------------------------------------
(* Properties of runs without rows (Spec) *)

\* Every fetch function of the run returned a frame without records.
ZeroFetched ==
    \A i \in 1..Len(FetchFns(script)) : df_raw[i].err = "" /\ df_raw[i].rows = <<>>

\* The filter of the run retained no row of any fetched frame.
ZeroRetained ==
    /\ script \in {"WAHS", "PROD"}
    /\ Len(filtered) = Len(FetchFns(script))
    /\ \A i \in 1..Len(filtered) : filtered[i].err = "" /\ filtered[i].rows = <<>>

\* C22: a run whose fetches return no record, or whose filter retains no row,
\* completes its transformation with a final table of zero rows and goes on to
\* the load step, where it loads that table.
C22_EmptyIsNotAnError ==
    (script \in Scripts /\ final # UnsetFrame /\ (ZeroFetched \/ ZeroRetained)) =>
        /\ final.err = ""
        /\ final.rows = <<>>
        /\ outcome.kind # "raised"
        /\ \A j \in 1..Len(loads) : loads[j].rows = <<>>

----------------------------------------------------------------------------
(* Properties of the amount columns (SpecT) *)

\* Final amount f is the amount of line: the line's Amount read as a number
\* when the line is a mapping with an Amount, null when it is a mapping
\* without one, 0 when it is no mapping.
IsAmountOfLine(f, line) ==
    /\ (line.kind = "dict" /\ line.Amount # NoneV) => CoercedFrom(f, line.Amount)
    /\ (line.kind = "dict" /\ line.Amount = NoneV) => f = NoneV
    /\ line.kind # "dict" => f = NumV(0)

\* The final table of the retained rows has been built.
FinalBuilt == pc = "t_final" /\ tout.err = "" /\ script \in {"WAHS", "PROD"}

\* C23 as stated: the amount of every retained row is the amount of its line.
C23_AmountIsLineAmount ==
    FinalBuilt =>
        \A k \in 1..Len(tout.rows) :
            IsAmountOfLine(final.rows[k]["total_amount"], tout.rows[k]["Line"])

\* C23: in WAHS the amount of every retained row is the amount of its line;
\* PROD reads no amount from the line: its amount is the TotalAmt of the
\* transaction, and its quantity and price are the Qty and UnitPrice of the
\* line's SalesItemLineDetail, null when the line is no mapping or has none.
C23_AmountOfLineInWAHS ==
    FinalBuilt =>
        \A k \in 1..Len(tout.rows) :
            LET f == final.rows[k]
                r == tout.rows[k]
                line == r["Line"]
                detailed == line.kind = "dict" /\ line.hasDetail
            IN /\ script = "WAHS" => IsAmountOfLine(f["total_amount"], line)
               /\ script = "PROD" =>
                      /\ CoercedFrom(f["total_amount"], r["TotalAmt"])
                      /\ detailed => /\ CoercedFrom(f["quantity"], line.Qty)
                                     /\ CoercedFrom(f["sales_price"], line.UnitPrice)
                      /\ ~detailed => f["quantity"] = NoneV /\ f["sales_price"] = NoneV

\* WAHS retained a line with Amount 9 and a list entry that is no mapping, with
\* amounts 9 and 0.
C23_Witness ==
    /\ FinalBuilt
    /\ script = "WAHS"
    /\ \E k \in 1..Len(tout.rows) :
           /\ tout.rows[k]["Line"] = SampleLine.D
           /\ final.rows[k]["total_amount"] = NumV(9)
    /\ \E k \in 1..Len(tout.rows) :
           /\ tout.rows[k]["Line"].kind # "dict"
           /\ final.rows[k]["total_amount"] = NumV(0)

----------------------------------------------------------------------------
(* Properties of the invoice fetch of PROD (Spec) *)

\* C24: fetch_qbo_invoices_raw of PROD issues at most one request, for start
\* position 1 and max_results records, whatever the length of the page; the
\* frame it returns holds the invoices at positions 1..max_results and no
\* other, and no invoice row of the final table comes from a later position.
C24_InvoicesCappedAtOnePage ==
    script = "PROD" =>
        /\ Len(reqLog[2]) <= 1
        /\ \A k \in 1..Len(reqLog[2]) :
               /\ reqLog[2][k].fn = "PROD_INV"
               /\ reqLog[2][k].start = InitialStartPos
               /\ reqLog[2][k].max = max_results
        /\ FetchReturned(2) =>
               LET n == IF serverLen["Invoice"] < max_results
                        THEN serverLen["Invoice"] ELSE max_results
               IN /\ Len(df_raw[2].rows) = n
                  /\ \A k \in 1..n : df_raw[2].rows[k]["Id"] = RecordAt("Invoice", k).Id
        /\ \A j \in 1..Len(loads) : \A k \in 1..Len(loads[j].rows) :
               loads[j].rows[k]["transaction_type"] = "Invoice" =>
                   \E p \in 1..max_results :
                       /\ p <= serverLen["Invoice"]
                       /\ loads[j].rows[k]["transaction_id"] = RecordAt("Invoice", p).Id

\* The server held more than one full page of invoices; PROD requested the
\* first page only and ran to the load.
C24_Witness ==
    /\ script = "PROD"
    /\ serverLen["Invoice"] > max_results
    /\ Len(reqLog[2]) = 1
    /\ Len(pageLog[2]) = 1
    /\ Len(pageLog[2][1]) = max_results
    /\ Len(df_raw[2].rows) = max_results
    /\ pc = "end"
    /\ Len(loads) = 1
    /\ \E k \in 1..Len(loads[1].rows) : loads[1].rows[k]["transaction_type"] = "Invoice"

----------------------------------------------------------------------------
(* Properties of the write-back of the rotated token (Spec) *)

\* The token refresh of the run succeeded.
Refreshed == \E i \in 1..Len(credLog) : credLog[i] = "refresh_ok"

\* The run attempted to write a refresh token to the credential store.
WriteAttempted == \E i \in 1..Len(credLog) : credLog[i] \in {"write_ok", "write_failed"}

\* C25: after a successful refresh the new refresh token is written to the
\* credential store exactly when it differs from the token read at startup;
\* the attempt precedes every request to the accounting API; an unchanged
\* token, or a failed refresh, leaves the store unwritten.
C25_WriteBackIffRotated ==
    script \in Scripts =>
        /\ Refreshed => (WriteAttempted <=> new_refresh_token # initial_token)
        /\ ~Refreshed => (~WriteAttempted /\ AllRequests = <<>>)
        /\ ~WriteAttempted => (storeWrites = <<>> /\ store = StoredToken)
        /\ (\E i \in 1..Len(credLog) : credLog[i] = "write_ok") =>
               (storeWrites = <<new_refresh_token>> /\ store = new_refresh_token)
        /\ (\E i \in 1..Len(credLog) : credLog[i] = "write_failed") =>
               (storeWrites = <<>> /\ store = StoredToken)
        /\ \A i \in 1..Len(credLog) :
               credLog[i] \in {"write_ok", "write_failed"} =>
                   (i > 1 /\ credLog[i - 1] = "refresh_ok" /\ i = Len(credLog))

\* A run wrote the rotated token to the store and then sent requests.
C25_Witness ==
    /\ script \in Scripts
    /\ new_refresh_token = RotatedToken
    /\ initial_token = StoredToken
    /\ store = RotatedToken
    /\ storeWrites = <<RotatedToken>>
    /\ AllRequests # <<>>

----------------------------------------------------------------------------
(* Properties of the final table of the sandbox script (SpecT) *)

\* C26: in the sandbox script, when at least one exploded line matches the
\* target, the transformation completes with one row per matching line, in
\* the columns sales_receipt_id, customer_name, transaction_date,
\* product_name, line_amount, the amount being the amount of the line.
C26_SandboxFinalPerMatchingLine ==
    (/\ script = "SANDBOX"
     /\ pc \in {"t_final", "t_final_raised"}
     /\ tout.err = ""
     /\ ~IsEmpty(tout)) =>
        /\ pc = "t_final"
        /\ final.err = ""
        /\ final.cols = <<"sales_receipt_id", "customer_name", "transaction_date",
                          "product_name", "line_amount">>
        /\ Len(final.rows) = Len(tout.rows)
        /\ \A k \in 1..Len(final.rows) :
               IsAmountOfLine(final.rows[k]["line_amount"], tout.rows[k]["Line"])

----------------------------------------------------------------------------
(* Properties of the amount column of PROD (SpecT) *)

\* The entries a record's Line cell explodes to.
LinesOf(r) == IF "Line" \in r.keys /\ r.Line # <<>> THEN r.Line ELSE <<NaNLine>>

\* The line's item name equals PROD's normalized target.
MatchesInPROD(line) ==
    Matches(clean_and_lower("PROD", get_item_name("PROD", line)),
            NormalizeTarget("PROD", ttarget))

\* One entry per matching line of the records, in order, holding the Id and
\* the header TotalAmt of the line's transaction.
RECURSIVE HeaderOfMatches(_)
HeaderOfMatches(recs) ==
    IF recs = <<>> THEN <<>>
    ELSE LET r == Head(recs)
             m == SelectSeq(LinesOf(r), MatchesInPROD)
         IN [j \in 1..Len(m) |->
               [Id |-> r.Id,
                TotalAmt |-> IF "TotalAmt" \in r.keys THEN r.TotalAmt ELSE NoneV]]
            \o HeaderOfMatches(Tail(recs))

\* C27: in PROD a transaction with k matching lines contributes k rows to the
\* final table, each with the transaction's Id and with total_amount read
\* from the transaction's header TotalAmt, so rows of one transaction carry
\* the same total_amount.
C27_TotalIsHeaderTotalAmt ==
    (script = "PROD" /\ pc = "t_final" /\ final.err = "") =>
        LET exp == HeaderOfMatches(tbatch)
        IN /\ Len(final.rows) = Len(exp)
           /\ Len(final.rows) > 0 =>
                  /\ \A k \in 1..Len(exp) :
                         /\ final.rows[k]["transaction_id"] = exp[k].Id
                         /\ CoercedFrom(final.rows[k]["total_amount"], exp[k].TotalAmt)
                  /\ \A k, l \in 1..Len(exp) :
                         final.rows[k]["transaction_id"] = final.rows[l]["transaction_id"]
                             => final.rows[k]["total_amount"] = final.rows[l]["total_amount"]

\* PROD retained both lines of a transaction whose TotalAmt is 8 and whose
\* lines have Amount 4: two rows with the transaction's Id and total 8.
C27_Witness ==
    /\ script = "PROD"
    /\ pc = "t_final"
    /\ final.err = ""
    /\ \E k \in 1..(Len(final.rows) - 1) :
           /\ final.rows[k]["transaction_id"] = "S4"
           /\ final.rows[k + 1]["transaction_id"] = "S4"
           /\ final.rows[k]["total_amount"] = NumV(8)
           /\ final.rows[k + 1]["total_amount"] = NumV(8)
           /\ tout.rows[k]["Line"].Amount = NumV(4)
           /\ tout.rows[k + 1]["Line"].Amount = NumV(4)

----------------------------------------------------------------------------
(* Properties of a failed Meta fetch (SpecP) *)

\* fetch_meta_data reported an error payload or an exception.
MetaFetchFailed ==
    \E i \in 1..Len(printed) : printed[i] \in {"Meta Error", "Meta Exception"}

\* C28: fetch_meta_data never raises and returns an empty list on an error
\* payload and on an exception; load_to_bigquery given an empty list returns
\* without reading the secret and without a load job.  A failed Meta fetch
\* thus leaves the secret unread and the destination as it was.
C28_FailedFetchLoadsNothing ==
    script = "PACING_M" =>
        /\ pc # "p_main" => outcome \in {Running, Exited(0)} \/ credLog # <<>>
        /\ MetaFetchFailed => all_records = <<>>
        /\ (pc # "p_main" /\ all_records = <<>>) =>
               /\ credLog = <<>>
               /\ loads = <<>>
               /\ jobs = <<>>
               /\ dest \in PriorPacingTables
               /\ outcome \in {Running, Exited(0)}
        /\ (pc = "p_end" /\ all_records = <<>>) =>
               \E i \in 1..Len(printed) : printed[i] = "No data to load."

\* A Meta fetch failed and the run ended with nothing read and nothing loaded.
C28_Witness ==
    /\ script = "PACING_M"
    /\ MetaFetchFailed
    /\ pc = "p_end"
    /\ outcome = Exited(0)
    /\ printed[Len(printed)] = "No data to load."
    /\ credLog = <<>>
    /\ jobs = <<>>

----------------------------------------------------------------------------
(* SpecL: learndash_final/main.py, sync_learndash_data *)

\* WP_PASSWORD = os.environ.get('WP_PASSWORD'): unset, empty or a password.
Passwords == {NoneV, StrV(<<>>), StrV(<<"p">>), StrV(<<"q">>)}

\* What requests.get(...) gives: an exception, or a response with a status
\* and with headers that lack X-WP-Total or hold one of these texts.
WPResponses ==
    LET statuses == {200, 201, 401, 500}
        headers  == { [k \in {} |-> NoneV] }
                    \cup { [k \in {"X-WP-Total"} |-> v] :
                             v \in {StrV(<<"0">>), StrV(<<"7">>), StrV(<<"A">>), StrV(<<>>)} }
    IN { [kind |-> "exception", status_code |-> 0, headers |-> [k \in {} |-> NoneV]] }
       \cup { [kind |-> "ok", status_code |-> c, headers |-> h] :
                c \in statuses, h \in headers }

\* A check that lets every status below 400 pass.
StatusIsOkBelow400(code) == code < 400

\* if response.status_code != 200: raise
StatusIsOk(code) == code = 200

\* response.headers.get('X-WP-Total', 0)
HeaderTotal(resp) == ItemGet(resp.headers, "X-WP-Total", NumV(0))

\* datetime.now().date().isoformat()
Today == StrV(<<"t">>)

\* rows = [{"date": ..., "total_students": total_students}]
StudentRows(total) == <<[date |-> Today, total_students |-> total]>>

\* The destination before the run: empty, or holding the row of an earlier day.
PriorStudentTables ==
    { Frame(<<"date", "total_students">>, <<>>),
      Frame(<<"date", "total_students">>, <<[date |-> Yesterday, total_students |-> NumV(3)]>>),
      Frame(<<"date", "total_students">>, <<[date |-> Today, total_students |-> NumV(7)]>>) }

\* client.insert_rows_json(table_ref, rows) returning []: the rows are added.
InsertRows(old, rows) == Frame(old.cols, old.rows \o rows)

InitL ==
    /\ script = "LEARNDASH"
    /\ pc = "l_start"
    /\ outcome = Running
    /\ all_records = <<>>
    /\ printed = <<>>
    /\ loads = <<>>
    /\ dest \in PriorStudentTables
    /\ credLog = <<>>
    /\ jobs = <<>>
    /\ runNo = 1
    /\ IdleFetch
    /\ IdleT
    /\ IdleN
    /\ WP_PASSWORD \in Passwords
    /\ wp_requests = <<>>
    /\ response = NoResponse
    /\ total_students = NoneV

\* if not WP_PASSWORD: raise ValueError(...)
LCheckPassword ==
    /\ pc = "l_start"
    /\ IF Truthy(WP_PASSWORD)
       THEN /\ pc' = "l_get"
            /\ printed' = Append(printed, "Fetching data from WordPress...")
            /\ UNCHANGED outcome
       ELSE /\ pc' = "l_end"
            /\ outcome' = Raised(<<"WP_PASSWORD not found">>)
            /\ UNCHANGED printed
    /\ UNCHANGED <<script, all_records, loads, dest, credLog, jobs, runNo, fetchVars,
                   tVars, nVars, new_refresh_token, WP_PASSWORD, wp_requests, response,
                   total_students>>

\* response = requests.get(...); the status check; total_students = int(...)
LGet ==
    /\ pc = "l_get"
    /\ wp_requests' = Append(wp_requests, [auth |-> WP_PASSWORD])
    /\ \E resp \in WPResponses :
         /\ response' = resp
         /\ CASE resp.kind = "exception" ->
                   /\ pc' = "l_end"
                   /\ outcome' = Raised(<<"requests">>)
                   /\ UNCHANGED <<total_students, printed>>
              [] resp.kind = "ok" /\ ~StatusIsOk(resp.status_code) ->
                   /\ pc' = "l_end"
                   /\ outcome' = Raised(<<"WP Error">>)
                   /\ UNCHANGED <<total_students, printed>>
              [] resp.kind = "ok" /\ StatusIsOk(resp.status_code)
                                  /\ ~CanConvert(HeaderTotal(resp)) ->
                   /\ pc' = "l_end"
                   /\ outcome' = Raised(<<"int">>)
                   /\ UNCHANGED <<total_students, printed>>
              [] OTHER ->
                   /\ total_students' = ToNumeric(HeaderTotal(resp))
                   /\ printed' = Append(printed, "Found students.")
                   /\ pc' = "l_insert"
                   /\ UNCHANGED outcome
    /\ UNCHANGED <<script, all_records, loads, dest, credLog, jobs, runNo, fetchVars,
                   tVars, nVars, new_refresh_token, WP_PASSWORD>>

\* client = bigquery.Client(...); errors = client.insert_rows_json(table_ref, rows);
\* the errors are printed and the function returns.
LInsert ==
    /\ pc = "l_insert"
    /\ pc' = "l_end"
    /\ \E res \in {"no client", "inserted", "errors", "raised"} :
         IF res = "no client"
         THEN /\ outcome' = Raised(<<"client">>)
              /\ UNCHANGED <<loads, dest, jobs, printed>>
         ELSE /\ loads' = Append(loads, StudentRows(total_students))
              /\ dest' = IF res = "inserted" THEN InsertRows(dest, StudentRows(total_students))
                         ELSE dest
              /\ jobs' = Append(jobs, [committed |-> res = "inserted", before |-> dest,
                                       table |-> dest'])
              /\ printed' = IF res = "raised" THEN printed
                            ELSE Append(printed, IF res = "inserted"
                                                 THEN "Success! BigQuery updated."
                                                 ELSE "BigQuery Errors")
              /\ outcome' = IF res = "raised" THEN Raised(<<"insert">>) ELSE Exited(0)
    /\ UNCHANGED <<script, all_records, credLog, runNo, fetchVars, tVars, nVars,
                   new_refresh_token, lVars>>

NextL ==
    \/ LCheckPassword
    \/ LGet
    \/ LInsert

SpecL == InitL /\ [][NextL]_vars

----------------------------------------------------------------------------
(* Properties of sync_learndash_data (SpecL) *)

\* The run sent its request and WordPress answered with status 200.
Got200 == response.kind = "ok" /\ response.status_code = 200

\* The rules of the run that hold whether or not an insert is attempted: at
\* most one request and one insert, of one row (date, total_students), after a
\* 200 response; no request without a password; no insert after another
\* status; total_students 0 for a response without X-WP-Total.
InsertOnlyAfter200 ==
    /\ Len(wp_requests) <= 1
    /\ Len(loads) <= 1
    /\ \A i \in 1..Len(loads) :
           /\ loads[i] = <<[date |-> Today, total_students |-> total_students]>>
           /\ DOMAIN loads[i][1] = {"date", "total_students"}
           /\ Got200
           /\ wp_requests # <<>>
    /\ ~Truthy(WP_PASSWORD) =>
           /\ wp_requests = <<>>
           /\ loads = <<>>
           /\ pc = "l_end" => outcome = Raised(<<"WP_PASSWORD not found">>)
    /\ (response.kind = "ok" /\ response.status_code # 200) =>
           /\ loads = <<>>
           /\ dest \in PriorStudentTables
           /\ outcome = Raised(<<"WP Error">>)
    /\ (Got200 /\ "X-WP-Total" \notin DOMAIN response.headers) =>
           /\ total_students = NumV(0)
           /\ \A i \in 1..Len(loads) : loads[i][1].total_students = NumV(0)

\* C29 as stated: a run that received a 200 response attempts exactly one
\* insert before it ends.
C29_OneInsertPerRunAfter200 ==
    script = "LEARNDASH" =>
        /\ InsertOnlyAfter200
        /\ (pc = "l_end" /\ Got200) => Len(loads) = 1

\* C29: a run attempts at most one insert, of one row (date, total_students),
\* and only after a 200 response; without a password it raises before any
\* request, and after another status before any insert; a response without
\* X-WP-Total gives total_students 0.  The insert is attempted exactly once
\* when the response is 200, its X-WP-Total is absent or the text of an
\* integer, and the warehouse client is constructed; a 200 response whose
\* X-WP-Total is no integer, or a client that cannot be constructed, ends the
\* run with an exception and no insert.
C29_OneInsertAfterUsable200 ==
    script = "LEARNDASH" =>
        /\ InsertOnlyAfter200
        /\ (pc = "l_end" /\ Got200) =>
               IF CanConvert(HeaderTotal(response)) /\ outcome # Raised(<<"client">>)
               THEN Len(loads) = 1
               ELSE loads = <<>> /\ outcome \in {Raised(<<"int">>), Raised(<<"client">>)}

\* A run got a 200 response without X-WP-Total and inserted one row with
\* total_students 0.
C29_Witness ==
    /\ script = "LEARNDASH"
    /\ pc = "l_end"
    /\ Got200
    /\ "X-WP-Total" \notin DOMAIN response.headers
    /\ Len(wp_requests) = 1
    /\ loads = <<StudentRows(NumV(0))>>
    /\ jobs[1].committed
    /\ Len(dest.rows) = Len(jobs[1].before.rows) + 1

====
